---------------------------- MODULE Spec2Model ----------------------------
(***************************************************************************)
(* A model of the routing engine of the map pathfinding tool:              *)
(* Pathfinder.buildGraph, Pathfinder.dijkstra and                          *)
(* Pathfinder.findKShortestPaths (src/js/engine/Pathfinder.js).            *)
(*                                                                         *)
(* SpecDijkstra builds a graph and makes one dijkstra call with arbitrary  *)
(* exclusions; SpecFindK builds a graph and runs one findKShortestPaths    *)
(* call, one loop iteration per step; SpecSteps follows a dijkstra call    *)
(* through its while loop.  Further specifications model the StateStore    *)
(* and its undo history (SpecStore, SpecHistory), the terrain layer and    *)
(* the connection costs (SpecTerrain, SpecEdgeCost, SpecRecalc), curve     *)
(* splitting (SpecBezier), the route selection of view mode (SpecViewer)   *)
(* and the persistence layer (SpecStorage).                                *)
(*                                                                         *)
(* Waypoint ids and connection ids are strings in the program; here they   *)
(* are positive integers.  A JavaScript Map is a sequence of entries in    *)
(* insertion order (Map iteration order), or a function whose DOMAIN is    *)
(* the set of keys when the order is never observed.                       *)
(***************************************************************************)
EXTENDS Integers, Sequences, FiniteSets, TLC

(***************************************************************************)
(* Bounds of the input domain.                                             *)
(***************************************************************************)
NumNodes == 4
MaxConns == 5
MaxOneWay == 1
MaxCost == 2
MaxK == 4
MaxExcluded == 1

VARIABLES
    waypoints,       \* the waypoint list handed to buildGraph
    edges,           \* the connection list handed to buildGraph
    graph,           \* this.graph, the result of buildGraph
    pc,              \* position of the call in progress
    args,            \* arguments of the call in progress
    ret,             \* value returned by the finished call
    paths,           \* findKShortestPaths: accepted paths (A)
    potentialPaths,  \* findKShortestPaths: pending candidates (B)
    i,               \* findKShortestPaths: outer loop counter
    j,               \* findKShortestPaths: inner loop counter (spur index)
    search,          \* dijkstra: the locals of a call that is followed step by step
    viewer,          \* the ViewerController: the route selection of view mode
    storage,         \* the Storage object, localStorage and the IndexedDB store
    store,           \* the StateStore: its current map and its undo history
    layer,           \* the terrain layer of the map (map.terrain)
    image            \* the pixel size of the map image and the grid size asked for

vars == <<waypoints, edges, graph, pc, args, ret, paths, potentialPaths, i, j,
          search, viewer, storage, store, layer, image>>

\* The variables of the view mode and of the persistence layer.
appVars == <<viewer, storage>>

\* The variables of the terrain layer.
terrainVars == <<layer, image>>

\* The variables of the routing engine.
routeVars == <<waypoints, edges, graph, pc, args, ret, paths, potentialPaths, i, j,
               search>>

Nodes == 1..NumNodes

(***************************************************************************)
(* Generic helpers for the JavaScript containers.                          *)
(***************************************************************************)
\* Map.prototype.set on a Map whose iteration order is not observed.
MapSet(m, key, value) ==
    [x \in (DOMAIN m) \cup {key} |-> IF x = key THEN value ELSE m[x]]

\* The empty Map.
EmptyMap == [x \in {} |-> 0]

\* The set of elements of an array.
Range(s) == {s[p] : p \in 1..Len(s)}

\* One step of a stable sort by the cost field: e goes after every element
\* whose cost is not greater.
InsertByCost(sorted, e) ==
    LET before == Cardinality({p \in 1..Len(sorted) : sorted[p].cost <= e.cost})
    IN SubSeq(sorted, 1, before) \o <<e>> \o SubSeq(sorted, before + 1, Len(sorted))

\* Mutant: the array is left in insertion order.
SortByCostUnsorted(q) == q

\* Array.prototype.sort((a, b) => a.cost - b.cost): stable, ascending cost.
RECURSIVE SortByCost(_)
SortByCost(q) ==
    IF Len(q) = 0 THEN <<>>
    ELSE InsertByCost(SortByCost(SubSeq(q, 1, Len(q) - 1)), q[Len(q)])

(***************************************************************************)
(* buildGraph                                                              *)
(***************************************************************************)
\* neighbors.set(neighborId, {cost, edgeId}): an existing key keeps its
\* place in the iteration order, a new key goes last.
SetNeighbor(neighbors, neighborId, cost, edgeId) ==
    LET entry == [id |-> neighborId, cost |-> cost, edgeId |-> edgeId]
    IN IF \E p \in 1..Len(neighbors) : neighbors[p].id = neighborId
       THEN [p \in 1..Len(neighbors) |->
                IF neighbors[p].id = neighborId THEN entry ELSE neighbors[p]]
       ELSE Append(neighbors, entry)

\* node.neighbors.get(neighborId); the empty sequence stands for undefined.
GetNeighbor(neighbors, neighborId) ==
    SelectSeq(neighbors, LAMBDA e : e.id = neighborId)

\* Lines 57-76: the cost of a connection's adjacency entries.  A curved
\* connection (type 'bezier' with at least two control points) is scaled by
\* bezierLength / (straightLength || 1).  The two lengths, which the program
\* computes from the waypoint and control point coordinates, are given with
\* the connection here, as whole numbers with an exact quotient; the
\* controlPoints field is the number of control points.
edgeCost(edge) ==
    IF /\ "type" \in DOMAIN edge
       /\ edge.type = "bezier"
       /\ edge.controlPoints >= 2
    THEN (edge.cost * edge.bezierLength)
             \div (IF edge.straightLength = 0 THEN 1 ELSE edge.straightLength)
    ELSE edge.cost

\* Mutant: the reverse entry is added only when the flag is present and true.
AddEdgeTruthyFlag(g, edge) ==
    IF edge.from \notin DOMAIN g \/ edge.to \notin DOMAIN g THEN g
    ELSE LET fwd == [g EXCEPT ![edge.from].neighbors =
                         SetNeighbor(@, edge.to, edgeCost(edge), edge.id)]
         IN IF "bidirectional" \in DOMAIN edge /\ edge.bidirectional = TRUE
            THEN [fwd EXCEPT ![edge.to].neighbors =
                         SetNeighbor(@, edge.from, edgeCost(edge), edge.id)]
            ELSE fwd

\* Mutant: the reverse entry carries the stored cost, not the scaled one.
AddEdgeReverseUnscaled(g, edge) ==
    IF edge.from \notin DOMAIN g \/ edge.to \notin DOMAIN g THEN g
    ELSE LET fwd == [g EXCEPT ![edge.from].neighbors =
                         SetNeighbor(@, edge.to, edgeCost(edge), edge.id)]
         IN IF ~("bidirectional" \in DOMAIN edge /\ edge.bidirectional = FALSE)
            THEN [fwd EXCEPT ![edge.to].neighbors =
                         SetNeighbor(@, edge.from, edge.cost, edge.id)]
            ELSE fwd

\* Mutant: only a missing from node makes the callback return early.
AddEdgeFromOnly(g, edge) ==
    IF edge.from \notin DOMAIN g THEN g
    ELSE LET fwd == [g EXCEPT ![edge.from].neighbors =
                         SetNeighbor(@, edge.to, edgeCost(edge), edge.id)]
         IN IF /\ ~("bidirectional" \in DOMAIN edge /\ edge.bidirectional = FALSE)
               /\ edge.to \in DOMAIN g
            THEN [fwd EXCEPT ![edge.to].neighbors =
                         SetNeighbor(@, edge.from, edgeCost(edge), edge.id)]
            ELSE fwd

\* The callback of edges.forEach.  A record without the bidirectional field
\* has it undefined, and undefined !== false.
AddEdge(g, edge) ==
    IF edge.from \notin DOMAIN g \/ edge.to \notin DOMAIN g THEN g
    ELSE LET fwd == [g EXCEPT ![edge.from].neighbors =
                         SetNeighbor(@, edge.to, edgeCost(edge), edge.id)]
         IN IF ~("bidirectional" \in DOMAIN edge /\ edge.bidirectional = FALSE)
            THEN [fwd EXCEPT ![edge.to].neighbors =
                         SetNeighbor(@, edge.from, edgeCost(edge), edge.id)]
            ELSE fwd

RECURSIVE AddEdges(_, _, _)
AddEdges(g, es, p) ==
    IF p > Len(es) THEN g ELSE AddEdges(AddEdge(g, es[p]), es, p + 1)

buildGraph(wps, es) ==
    AddEdges([n \in {wps[p].id : p \in 1..Len(wps)} |->
                 [id |-> n, neighbors |-> <<>>]], es, 1)

(***************************************************************************)
(* dijkstra                                                                *)
(***************************************************************************)
\* The value null.
Null == [path |-> <<>>, cost |-> 0, edges |-> <<>>, null |-> TRUE]

RECURSIVE ReconstructFrom(_, _, _, _, _)
ReconstructFrom(previous, previousEdge, current, path, es) ==
    LET path1 == <<current>> \o path
        es1 == IF current \in DOMAIN previousEdge
               THEN <<previousEdge[current]>> \o es ELSE es
    IN IF current \in DOMAIN previous
       THEN ReconstructFrom(previous, previousEdge, previous[current], path1, es1)
       ELSE [path |-> path1, edges |-> es1]

reconstructPath(previous, previousEdge, startId, endId, totalCost) ==
    LET r == ReconstructFrom(previous, previousEdge, endId, <<>>, <<>>)
    IN [path |-> r.path, cost |-> totalCost, edges |-> r.edges]

\* The state of one dijkstra call at the head of its while loop.
DijkstraInit(startId) ==
    [queue |-> <<[id |-> startId, cost |-> 0]>>,
     costs |-> MapSet(EmptyMap, startId, 0),
     previous |-> EmptyMap,
     previousEdge |-> EmptyMap,
     visited |-> {},
     status |-> "expanding",
     result |-> Null]

\* No call is followed step by step.
NoSearch ==
    [locals |-> DijkstraInit(0), current |-> [id |-> 0, cost |-> 0],
     taken |-> <<>>, expanded |-> <<>>, inserted |-> <<>>]

\* Mutant: a tentative cost equal to the recorded one replaces it too.
RelaxOnTie(st, current, neighbor) ==
    LET newCost == current.cost + neighbor.cost
    IN IF \/ neighbor.id \notin DOMAIN st.costs
          \/ newCost <= st.costs[neighbor.id]
       THEN [st EXCEPT
               !.costs = MapSet(@, neighbor.id, newCost),
               !.previous = MapSet(@, neighbor.id, current.id),
               !.previousEdge = MapSet(@, neighbor.id, neighbor.edgeId),
               !.queue = Append(@, [id |-> neighbor.id, cost |-> newCost])]
       ELSE st

\* Lines 133-141: the tentative cost of a neighbour, kept when it is the
\* first one or strictly cheaper than the recorded one.
Relax(st, current, neighbor) ==
    LET newCost == current.cost + neighbor.cost
    IN IF \/ neighbor.id \notin DOMAIN st.costs
          \/ newCost < st.costs[neighbor.id]
       THEN [st EXCEPT
               !.costs = MapSet(@, neighbor.id, newCost),
               !.previous = MapSet(@, neighbor.id, current.id),
               !.previousEdge = MapSet(@, neighbor.id, neighbor.edgeId),
               !.queue = Append(@, [id |-> neighbor.id, cost |-> newCost])]
       ELSE st

\* Mutant: the excluded connections are not skipped.
ExploreNeighborKeepingEdges(st, current, neighbor, call) ==
    IF /\ neighbor.id # call.startId
       /\ neighbor.id # call.endId
       /\ neighbor.id \in call.excludedNodes THEN st
    ELSE IF neighbor.id \in st.visited THEN st
    ELSE Relax(st, current, neighbor)

\* Mutant: an excluded target is skipped like any other excluded node.
ExploreNeighborExcludingTarget(st, current, neighbor, call) ==
    IF neighbor.edgeId \in call.excludedEdges THEN st
    ELSE IF neighbor.id # call.startId /\ neighbor.id \in call.excludedNodes THEN st
    ELSE IF neighbor.id \in st.visited THEN st
    ELSE Relax(st, current, neighbor)

\* The callback of node.neighbors.forEach for one adjacency entry.
ExploreNeighbor(st, current, neighbor, call) ==
    IF neighbor.edgeId \in call.excludedEdges THEN st
    ELSE IF /\ neighbor.id # call.startId
            /\ neighbor.id # call.endId
            /\ neighbor.id \in call.excludedNodes THEN st
    ELSE IF neighbor.id \in st.visited THEN st
    ELSE Relax(st, current, neighbor)

RECURSIVE ExploreNeighbors(_, _, _, _, _)
ExploreNeighbors(st, current, neighbors, p, call) ==
    IF p > Len(neighbors) THEN st
    ELSE ExploreNeighbors(ExploreNeighbor(st, current, neighbors[p], call),
                          current, neighbors, p + 1, call)

\* One evaluation of the while condition and, when it holds, of the body.
DijkstraStep(g, st, call) ==
    IF Len(st.queue) = 0
    THEN [st EXCEPT !.status = "exhausted", !.result = Null]
    ELSE LET sorted == SortByCost(st.queue)
             current == Head(sorted)
             shifted == [st EXCEPT !.queue = Tail(sorted)]
         IN IF current.id \in st.visited THEN shifted
            ELSE LET st1 == [shifted EXCEPT !.visited = @ \cup {current.id}]
                 IN IF current.id = call.endId
                    THEN [st1 EXCEPT
                            !.status = "found",
                            !.result = reconstructPath(st1.previous, st1.previousEdge,
                                           call.startId, call.endId,
                                           st1.costs[call.endId])]
                    ELSE IF current.id \notin DOMAIN g THEN st1
                    ELSE ExploreNeighbors(st1, current, g[current.id].neighbors, 1, call)

RECURSIVE DijkstraRun(_, _, _)
DijkstraRun(g, st, call) ==
    IF st.status # "expanding" THEN st
    ELSE DijkstraRun(g, DijkstraStep(g, st, call), call)

dijkstra(g, startId, endId, excludedEdges, excludedNodes) ==
    DijkstraRun(g, DijkstraInit(startId),
                [startId |-> startId, endId |-> endId,
                 excludedEdges |-> excludedEdges,
                 excludedNodes |-> excludedNodes]).result


IsNull(r) == "null" \in DOMAIN r

(***************************************************************************)
(* findKShortestPaths and its helpers                                      *)
(***************************************************************************)
pathStartsWith(path, prefix) ==
    IF Len(prefix) > Len(path) THEN FALSE
    ELSE \A p \in 1..Len(prefix) : path[p] = prefix[p]

\* The adjacency entry looked up by graph.get(a) and node.neighbors.get(b),
\* as a sequence of at most one entry (empty when either lookup fails).
Lookup(g, a, b) ==
    IF a \in DOMAIN g THEN GetNeighbor(g[a].neighbors, b) ELSE <<>>

RECURSIVE CostFrom(_, _, _)
CostFrom(g, path, p) ==
    IF p > Len(path) - 1 THEN 0
    ELSE LET edge == Lookup(g, path[p], path[p + 1])
         IN (IF Len(edge) > 0 THEN edge[1].cost ELSE 0) + CostFrom(g, path, p + 1)

calculatePathCost(g, path) == CostFrom(g, path, 1)

RECURSIVE EdgesFrom(_, _, _)
EdgesFrom(g, path, p) ==
    IF p > Len(path) - 1 THEN <<>>
    ELSE LET edge == Lookup(g, path[p], path[p + 1])
         IN (IF Len(edge) > 0 THEN <<edge[1].edgeId>> ELSE <<>>)
                \o EdgesFrom(g, path, p + 1)

getPathEdges(g, path) == EdgesFrom(g, path, 1)

\* Lines 202-216: the connection that each accepted path sharing the root
\* path takes out of the spur node.
SpurExcludedEdges(g, accepted, rootPath, spurNode) ==
    LET nextIndex == Len(rootPath) + 1
        sharing == {q \in 1..Len(accepted) :
                       /\ pathStartsWith(accepted[q].path, rootPath)
                       /\ nextIndex <= Len(accepted[q].path)
                       /\ Len(Lookup(g, spurNode, accepted[q].path[nextIndex])) > 0}
    IN {Lookup(g, spurNode, accepted[q].path[nextIndex])[1].edgeId : q \in sharing}

\* Mutant: no node of the root path is excluded.
SpurExcludedNodesNone(rootPath) == {}

\* Line 219: the nodes of the root path except the spur node.
SpurExcludedNodes(rootPath) == Range(SubSeq(rootPath, 1, Len(rootPath) - 1))

\* Mutant: the connection ids are taken from the root path without its
\* last node, as the cost is.
TotalPathEdgesSliced(g, rootPath, spurPath) ==
    LET rootButLast == SubSeq(rootPath, 1, Len(rootPath) - 1)
    IN [path |-> rootButLast \o spurPath.path,
        cost |-> calculatePathCost(g, rootButLast) + spurPath.cost,
        edges |-> getPathEdges(g, rootButLast) \o spurPath.edges]

\* The candidate spliced from the root path and a spur path.
TotalPath(g, rootPath, spurPath) ==
    LET rootButLast == SubSeq(rootPath, 1, Len(rootPath) - 1)
    IN [path |-> rootButLast \o spurPath.path,
        cost |-> calculatePathCost(g, rootButLast) + spurPath.cost,
        edges |-> getPathEdges(g, rootPath) \o spurPath.edges]

\* Mutant: a candidate is compared with the accepted paths only.
IsDuplicateOfAccepted(candidate, pending, accepted) ==
    \E p \in 1..Len(accepted) : accepted[p].path = candidate.path

\* path.join(',') of two id arrays agree exactly when the arrays are equal
\* (ids hold no comma).
IsDuplicate(candidate, pending, accepted) ==
    \/ \E p \in 1..Len(pending) : pending[p].path = candidate.path
    \/ \E p \in 1..Len(accepted) : accepted[p].path = candidate.path

\* The image variable of a map without an image.
NoImage == [width |-> 0, height |-> 0, gridSize |-> 0]

\* The value null of map.terrain: no layer exists.
NoLayer == [gridWidth |-> 0, gridHeight |-> 0, grid |-> <<>>, types |-> <<>>]

(***************************************************************************)
(* StateStore: the current map and the undo/redo history.                  *)
(*                                                                         *)
(* The store holds one map, the current one, until deleteMap removes it;   *)
(* mapOpen tells whether getCurrentMap finds it.  The selection fields of  *)
(* the state are not modelled.  JSON.parse(JSON.stringify(v)) is a deep    *)
(* copy; values here are immutable, so the copy of a list of waypoint or   *)
(* connection records is the list itself.                                  *)
(***************************************************************************)
MAX_HISTORY_SIZE == 100

\* The store after the constructor, with an empty map created and opened.
FreshStore ==
    [mapOpen |-> TRUE,
     waypoints |-> <<>>,
     edges |-> <<>>,
     terrain |-> NoLayer,
     history |-> <<>>,
     historyIndex |-> -1,
     isRestoringHistory |-> FALSE,
     hasUnsavedChanges |-> FALSE]

\* The snapshot of the mutable map data (lines 77-82 and 116-121).
Snapshot(st) ==
    [waypoints |-> st.waypoints, edges |-> st.edges, terrain |-> st.terrain]

pushHistory(st) ==
    IF st.isRestoringHistory \/ ~st.mapOpen THEN st
    ELSE LET kept == IF st.historyIndex < Len(st.history) - 1
                     THEN SubSeq(st.history, 1, st.historyIndex + 1)
                     ELSE st.history
             pushed == Append(kept, Snapshot(st))
         IN IF Len(pushed) > MAX_HISTORY_SIZE
            THEN [st EXCEPT !.history = Tail(pushed),
                            !.historyIndex = Len(pushed) - 2,
                            !.hasUnsavedChanges = TRUE]
            ELSE [st EXCEPT !.history = pushed,
                            !.historyIndex = Len(pushed) - 1,
                            !.hasUnsavedChanges = TRUE]

\* history[historyIndex] is undefined when the index is out of range, and
\* the map of the snapshot is missing after deleteMap.
restoreFromHistory(st) ==
    IF st.historyIndex < 0 \/ st.historyIndex > Len(st.history) - 1 THEN st
    ELSE IF ~st.mapOpen THEN st
    ELSE LET snapshot == st.history[st.historyIndex + 1]
         IN [st EXCEPT !.waypoints = snapshot.waypoints,
                       !.edges = snapshot.edges,
                       !.terrain = snapshot.terrain]

\* Mutant: undo does not save the current state first.
SaveUnsavedNothing(st) == [st EXCEPT !.hasUnsavedChanges = FALSE]

\* Lines 114-126 of undo: the current state is saved for redo.
SaveUnsaved(st) ==
    IF st.hasUnsavedChanges
    THEN IF st.mapOpen
         THEN [st EXCEPT !.history = Append(@, Snapshot(st)),
                         !.historyIndex = Len(st.history),
                         !.hasUnsavedChanges = FALSE]
         ELSE [st EXCEPT !.hasUnsavedChanges = FALSE]
    ELSE st

\* undo and redo give the store they leave and the value they return.
undo(st) ==
    IF Len(st.history) = 0 THEN [store |-> st, returned |-> FALSE]
    ELSE LET saved == SaveUnsaved(st)
         IN IF saved.historyIndex <= 0 THEN [store |-> saved, returned |-> FALSE]
            ELSE [store |-> restoreFromHistory(
                                [saved EXCEPT !.historyIndex = @ - 1]),
                  returned |-> TRUE]

redo(st) ==
    IF st.historyIndex >= Len(st.history) - 1 THEN [store |-> st, returned |-> FALSE]
    ELSE [store |-> restoreFromHistory([st EXCEPT !.historyIndex = @ + 1]),
          returned |-> TRUE]

getHistoryInfo(st) ==
    [canUndo |-> Len(st.history) > 0 /\ (st.hasUnsavedChanges \/ st.historyIndex > 0),
     canRedo |-> st.historyIndex < Len(st.history) - 1]

clearHistory(st) ==
    [st EXCEPT !.history = <<>>, !.historyIndex = -1, !.hasUnsavedChanges = FALSE]

\* The map is removed from the maps and is the current map no longer.
deleteMap(st) ==
    [st EXCEPT !.mapOpen = FALSE, !.waypoints = <<>>, !.edges = <<>>,
               !.terrain = NoLayer]

addWaypoint(st, waypoint) ==
    IF ~st.mapOpen THEN st
    ELSE [pushHistory(st) EXCEPT !.waypoints = Append(@, waypoint)]

\* { ...record, ...changes }
Spread(record, changes) ==
    [key \in DOMAIN record \cup DOMAIN changes |->
        IF key \in DOMAIN changes THEN changes[key] ELSE record[key]]

updateWaypoint(st, waypointId, changes, recordHistory) ==
    IF ~st.mapOpen THEN st
    ELSE [(IF recordHistory THEN pushHistory(st) ELSE st) EXCEPT
             !.waypoints = [p \in 1..Len(@) |->
                 IF @[p].id = waypointId THEN Spread(@[p], changes) ELSE @[p]]]

\* Mutant: the connections of the deleted waypoint are kept.
deleteWaypointKeepingEdges(st, waypointId) ==
    [pushHistory(st) EXCEPT
        !.waypoints = SelectSeq(@, LAMBDA wp : wp.id # waypointId)]

deleteWaypoint(st, waypointId) ==
    IF ~st.mapOpen THEN st
    ELSE [pushHistory(st) EXCEPT
             !.waypoints = SelectSeq(@, LAMBDA wp : wp.id # waypointId),
             !.edges = SelectSeq(@, LAMBDA e : e.from # waypointId /\ e.to # waypointId)]

addEdge(st, edge) ==
    IF ~st.mapOpen THEN st
    ELSE [pushHistory(st) EXCEPT !.edges = Append(@, edge)]

updateEdge(st, edgeId, changes, recordHistory) ==
    IF ~st.mapOpen THEN st
    ELSE [(IF recordHistory THEN pushHistory(st) ELSE st) EXCEPT
             !.edges = [p \in 1..Len(@) |->
                 IF @[p].id = edgeId THEN Spread(@[p], changes) ELSE @[p]]]

deleteEdge(st, edgeId) ==
    IF ~st.mapOpen THEN st
    ELSE [pushHistory(st) EXCEPT !.edges = SelectSeq(@, LAMBDA e : e.id # edgeId)]

setTerrain(st, terrain, recordHistory) ==
    IF ~st.mapOpen THEN st
    ELSE [(IF recordHistory THEN pushHistory(st) ELSE st) EXCEPT !.terrain = terrain]

(***************************************************************************)
(* The input domain.                                                       *)
(***************************************************************************)
Pairs == {pr \in Nodes \X Nodes : pr[1] < pr[2]}

PairBefore(a, b) == a[1] < b[1] \/ (a[1] = b[1] /\ a[2] < b[2])

\* The unordered pairs of waypoints in lexicographic order.
PairSeq ==
    [p \in 1..Cardinality(Pairs) |->
        CHOOSE pr \in Pairs : Cardinality({q \in Pairs : PairBefore(q, pr)}) = p - 1]

\* Connection p joins the p-th pair, with any cost and either directionality.
ConnChoices(p) ==
    {[id |-> p, from |-> PairSeq[p][1], to |-> PairSeq[p][2],
      cost |-> c, bidirectional |-> b] : c \in 0..MaxCost, b \in BOOLEAN}

\* Every list of n connections of that kind.
RECURSIVE ListsOfLen(_)
ListsOfLen(n) ==
    IF n = 0 THEN {<<>>}
    ELSE {Append(es, c) : es \in ListsOfLen(n - 1), c \in ConnChoices(n)}

\* The connection lists of the input domain: at most MaxConns connections,
\* at most MaxOneWay of them one-way.
EdgeLists ==
    {es \in UNION {ListsOfLen(n) : n \in {n \in 0..MaxConns : n <= Cardinality(Pairs)}} :
        Cardinality({p \in 1..Len(es) : ~es[p].bidirectional}) <= MaxOneWay}

SmallSubsets(S) == {T \in SUBSET S : Cardinality(T) <= MaxExcluded}

NoArgs == [startId |-> 0, endId |-> 0, excludedEdges |-> {}, excludedNodes |-> {}, k |-> 0]

\* The ViewerController after construction and with no route selected: the
\* value null is the id 0 for a waypoint id and the empty sequence for a
\* point <<x, y>>.  routeStart and routeEnd are fields of the store's state.
NoViewer ==
    [routeStart |-> 0, routeEnd |-> 0, arbitraryStart |-> <<>>, arbitraryEnd |-> <<>>]

\* The Storage object after construction (this.db = null) and what it works
\* on.  legacy is the localStorage item under LEGACY_STORAGE_KEY and stored
\* the committed value under DATA_KEY of the IndexedDB store, each a
\* sequence of at most one value (empty for null and undefined); pending is
\* the value a put has written in a transaction that is still active; maps
\* is state.maps of the StateStore; open tells how far the open request of
\* init has come and put how far the last put request of save; returned
\* and migrated are the values load and migrateLegacyData returned;
\* initially is the legacy item at page load; saveStatus is what
\* updateSaveStatus showed last; timer tells whether autoSaveTimeout runs.
NoStorage ==
    [db |-> FALSE, open |-> "none", legacy |-> <<>>, initially |-> <<>>,
     stored |-> <<>>, pending |-> <<>>, put |-> "none", maps |-> "none",
     migrated |-> FALSE, returned |-> FALSE, saveStatus |-> "none",
     saveErrorShown |-> FALSE, timer |-> FALSE]

(***************************************************************************)
(* The state machine.                                                      *)
(***************************************************************************)
\* A fresh Pathfinder (this.graph = new Map()) and the map data of one
\* search request.
Init ==
    /\ search = NoSearch
    /\ viewer = NoViewer
    /\ storage = NoStorage
    /\ waypoints = [p \in 1..NumNodes |-> [id |-> p]]
    /\ edges \in EdgeLists
    /\ graph = EmptyMap
    /\ pc = "new"
    /\ args = NoArgs
    /\ ret = Null
    /\ paths = <<>>
    /\ potentialPaths = <<>>
    /\ i = 0
    /\ j = 0
    /\ store = FreshStore
    /\ layer = NoLayer
    /\ image = NoImage

BuildGraph ==
    /\ pc = "new"
    /\ graph' = buildGraph(waypoints, edges)
    /\ pc' = "ready"
    /\ UNCHANGED <<appVars, store, layer, image, search, waypoints, edges, args, ret, paths, potentialPaths, i, j>>

CallDijkstra(s, t, X, N) ==
    /\ pc = "ready"
    /\ args' = [startId |-> s, endId |-> t, excludedEdges |-> X,
                excludedNodes |-> N, k |-> 0]
    /\ ret' = dijkstra(graph, s, t, X, N)
    /\ pc' = "dijkstraReturned"
    /\ UNCHANGED <<appVars, store, layer, image, search, waypoints, edges, graph, paths, potentialPaths, i, j>>

\* Lines 181-190: the first shortest path, or the early return.
FindKStart(s, t, k) ==
    /\ pc = "ready"
    /\ args' = [startId |-> s, endId |-> t, excludedEdges |-> {},
                excludedNodes |-> {}, k |-> k]
    /\ LET firstPath == dijkstra(graph, s, t, {}, {})
       IN IF IsNull(firstPath)
          THEN /\ ret' = <<>>
               /\ pc' = "findKReturned"
               /\ UNCHANGED <<paths, i>>
          ELSE /\ paths' = <<firstPath>>
               /\ i' = 1
               /\ pc' = "outer"
               /\ UNCHANGED ret
    /\ UNCHANGED <<appVars, store, layer, image, search, waypoints, edges, graph, potentialPaths, j>>

\* Line 193: the test of the outer loop; line 250 when it fails.
OuterLoop ==
    /\ pc = "outer"
    /\ IF i < args.k
       THEN /\ j' = 0
            /\ pc' = "inner"
            /\ UNCHANGED ret
       ELSE /\ ret' = paths
            /\ pc' = "findKReturned"
            /\ UNCHANGED j
    /\ UNCHANGED <<appVars, store, layer, image, search, waypoints, edges, graph, args, paths, potentialPaths, i>>

\* Lines 197-241: one iteration of the inner loop, the spur search at index j.
SpurSearch ==
    /\ pc = "inner"
    /\ j < Len(paths[i].path) - 1
    /\ LET lastPath == paths[i]
           spurNode == lastPath.path[j + 1]
           rootPath == SubSeq(lastPath.path, 1, j + 1)
           excludedEdges == SpurExcludedEdges(graph, paths, rootPath, spurNode)
           excludedNodes == SpurExcludedNodes(rootPath)
           spurPath == dijkstra(graph, spurNode, args.endId, excludedEdges, excludedNodes)
       IN IF IsNull(spurPath) THEN UNCHANGED potentialPaths
          ELSE LET totalPath == TotalPath(graph, rootPath, spurPath)
               IN IF IsDuplicate(totalPath, potentialPaths, paths)
                  THEN UNCHANGED potentialPaths
                  ELSE potentialPaths' = Append(potentialPaths, totalPath)
    /\ j' = j + 1
    /\ UNCHANGED <<appVars, store, layer, image, search, waypoints, edges, graph, pc, args, ret, paths, i>>

\* Lines 243-247: the break, or the cheapest candidate is accepted.
AcceptBest ==
    /\ pc = "inner"
    /\ ~(j < Len(paths[i].path) - 1)
    /\ IF Len(potentialPaths) = 0
       THEN /\ ret' = paths
            /\ pc' = "findKReturned"
            /\ UNCHANGED <<paths, potentialPaths, i>>
       ELSE LET sorted == SortByCost(potentialPaths)
            IN /\ paths' = Append(paths, Head(sorted))
               /\ potentialPaths' = Tail(sorted)
               /\ i' = i + 1
               /\ pc' = "outer"
               /\ UNCHANGED ret
    /\ UNCHANGED <<appVars, store, layer, image, search, waypoints, edges, graph, args, j>>

DijkstraCalls ==
    /\ pc = "ready"
    /\ \E s \in Nodes, t \in Nodes :
           \E X \in SmallSubsets(1..Len(edges)), N \in SmallSubsets(Nodes) :
               CallDijkstra(s, t, X, N)

FindKCalls ==
    /\ pc = "ready"
    /\ \E s \in Nodes, t \in Nodes, k \in 0..MaxK : FindKStart(s, t, k)

NextDijkstra == BuildGraph \/ DijkstraCalls

NextFindK == BuildGraph \/ FindKCalls \/ OuterLoop \/ SpurSearch \/ AcceptBest

SpecDijkstra == Init /\ [][NextDijkstra]_vars

SpecFindK == Init /\ [][NextFindK]_vars

(***************************************************************************)
(* A dijkstra call followed through its while loop.  search.locals are the *)
(* locals of the call; search.current is the entry taken by queue.shift(); *)
(* search.taken lists the ids that passed the visited test, in order;      *)
(* search.expanded lists the ids whose neighbours were explored, in order; *)
(* search.inserted lists every entry pushed to the queue, in order.        *)
(***************************************************************************)
\* Mutant: an entry of a visited node is not skipped.
TakeCurrentRevisiting(st, call) ==
    LET sorted == SortByCost(st.queue)
        current == Head(sorted)
        st1 == [st EXCEPT !.queue = Tail(sorted), !.visited = @ \cup {current.id}]
    IN IF current.id = call.endId
       THEN [locals |-> [st1 EXCEPT
                           !.status = "found",
                           !.result = reconstructPath(st1.previous, st1.previousEdge,
                                          call.startId, call.endId,
                                          st1.costs[call.endId])],
             current |-> current, outcome |-> "found"]
       ELSE [locals |-> st1, current |-> current, outcome |-> "explore"]

\* Lines 108-118 for a queue that is not empty: the sort, the shift, the
\* visited test and the target test.
TakeCurrent(st, call) ==
    LET sorted == SortByCost(st.queue)
        current == Head(sorted)
        shifted == [st EXCEPT !.queue = Tail(sorted)]
    IN IF current.id \in st.visited
       THEN [locals |-> shifted, current |-> current, outcome |-> "skipped"]
       ELSE LET st1 == [shifted EXCEPT !.visited = @ \cup {current.id}]
            IN IF current.id = call.endId
               THEN [locals |-> [st1 EXCEPT
                                   !.status = "found",
                                   !.result = reconstructPath(st1.previous,
                                                  st1.previousEdge, call.startId,
                                                  call.endId, st1.costs[call.endId])],
                     current |-> current, outcome |-> "found"]
               ELSE [locals |-> st1, current |-> current, outcome |-> "explore"]

\* The map data of a call that is followed step by step: at most
\* MaxStepConns connections.
MaxStepConns == 4

InitSteps ==
    /\ search = NoSearch
    /\ viewer = NoViewer
    /\ storage = NoStorage
    /\ waypoints = [p \in 1..NumNodes |-> [id |-> p]]
    /\ edges \in {es \in EdgeLists : Len(es) <= MaxStepConns}
    /\ graph = EmptyMap
    /\ pc = "new"
    /\ args = NoArgs
    /\ ret = Null
    /\ paths = <<>>
    /\ potentialPaths = <<>>
    /\ i = 0
    /\ j = 0
    /\ store = FreshStore
    /\ layer = NoLayer
    /\ image = NoImage

\* Lines 99-105: the call and the initialisation of its locals.
StartDijkstra ==
    /\ pc = "ready"
    /\ \E s \in Nodes, t \in Nodes :
           \E X \in SmallSubsets(1..Len(edges)), N \in SmallSubsets(Nodes) :
               /\ args' = [startId |-> s, endId |-> t, excludedEdges |-> X,
                           excludedNodes |-> N, k |-> 0]
               /\ search' = [locals |-> DijkstraInit(s),
                             current |-> [id |-> 0, cost |-> 0],
                             taken |-> <<>>, expanded |-> <<>>,
                             inserted |-> <<[id |-> s, cost |-> 0]>>]
    /\ pc' = "dijkstra"
    /\ UNCHANGED <<appVars, store, layer, image, waypoints, edges, graph, ret, paths,
                   potentialPaths, i, j>>

\* Lines 107-118: the while test and the body up to the target test; line 146
\* when the queue is empty.
DijkstraTake ==
    /\ pc = "dijkstra"
    /\ IF Len(search.locals.queue) = 0
       THEN /\ search' = [search EXCEPT !.locals.status = "exhausted",
                                        !.locals.result = Null]
            /\ ret' = Null
            /\ pc' = "dijkstraReturned"
       ELSE LET took == TakeCurrent(search.locals, args)
            IN /\ search' = [search EXCEPT
                               !.locals = took.locals,
                               !.current = took.current,
                               !.taken = IF took.outcome = "skipped" THEN @
                                         ELSE Append(@, took.current.id)]
               /\ ret' = IF took.outcome = "found" THEN took.locals.result ELSE ret
               /\ pc' = CASE took.outcome = "skipped" -> "dijkstra"
                          [] took.outcome = "found" -> "dijkstraReturned"
                          [] OTHER -> "explore"
    /\ UNCHANGED <<appVars, store, layer, image, waypoints, edges, graph, args, paths,
                   potentialPaths, i, j>>

\* Lines 120-143: the node of the entry taken is looked up and its
\* neighbours are explored.
DijkstraExplore ==
    /\ pc = "explore"
    /\ LET st == search.locals
           explored == IF search.current.id \notin DOMAIN graph THEN st
                       ELSE ExploreNeighbors(st, search.current,
                                graph[search.current.id].neighbors, 1, args)
       IN search' = [search EXCEPT
                        !.locals = explored,
                        !.expanded = Append(@, search.current.id),
                        !.inserted = @ \o SubSeq(explored.queue, Len(st.queue) + 1,
                                                 Len(explored.queue))]
    /\ pc' = "dijkstra"
    /\ UNCHANGED <<appVars, store, layer, image, waypoints, edges, graph, args, ret, paths,
                   potentialPaths, i, j>>

NextSteps ==
    \/ BuildGraph
    \/ StartDijkstra
    \/ DijkstraTake
    \/ DijkstraExplore
    \/ FindKCalls
    \/ OuterLoop
    \/ SpurSearch
    \/ AcceptBest

\* A call runs to its end in one invocation: JavaScript runs the function
\* to completion, so a step that can be taken is taken.
\* the step is told by the variables that every step of a call changes.
stepVars == <<pc, j, search>>

SpecSteps == InitSteps /\ [][NextSteps]_vars /\ WF_stepVars(NextSteps)

(***************************************************************************)
(* Reference notions the claims are stated with.                           *)
(***************************************************************************)
\* Every node sequence without a repeated node.
LooplessSeqs ==
    UNION {{q \in [1..n -> Nodes] : \A a, b \in 1..n : a # b => q[a] # q[b]} :
           n \in 1..NumNodes}

\* The adjacency entries from a to b (at most one).
Entries(g, a, b) == {e \in Range(g[a].neighbors) : e.id = b}

\* q is a path of g from s to t that crosses no connection of X and passes
\* through no node of N on the way.
IsPermittedPath(g, q, s, t, X, N) ==
    /\ q[1] = s
    /\ q[Len(q)] = t
    /\ \A p \in 1..(Len(q) - 1) : \E e \in Entries(g, q[p], q[p + 1]) : e.edgeId \notin X
    /\ \A p \in 2..(Len(q) - 1) : q[p] \notin N

PermittedPaths(g, s, t, X, N) ==
    {q \in LooplessSeqs : IsPermittedPath(g, q, s, t, X, N)}

\* The sum of the traversal costs over the consecutive pairs of q.
RECURSIVE TrueCost(_, _)
TrueCost(g, q) ==
    IF Len(q) <= 1 THEN 0
    ELSE (CHOOSE e \in Entries(g, q[1], q[2]) : TRUE).cost + TrueCost(g, Tail(q))

MinOf(S) == CHOOSE x \in S : \A y \in S : x <= y

(***************************************************************************)
(* Claims about dijkstra.                                                  *)
(***************************************************************************)
DijkstraReturned == pc = "dijkstraReturned"

Permitted ==
    PermittedPaths(graph, args.startId, args.endId,
                   args.excludedEdges, args.excludedNodes)

\* C1: a result's cost is the minimum total cost over all source-to-target
\* paths that use no excluded connection and no excluded intermediate node.
C1_MinCost ==
    (DijkstraReturned /\ ~IsNull(ret)) =>
        /\ Permitted # {}
        /\ ret.cost = MinOf({TrueCost(graph, q) : q \in Permitted})

\* A call where the exclusions matter: the result is dearer than the
\* cheapest unrestricted path and cheaper than another permitted path.
C1_Witness ==
    /\ DijkstraReturned /\ ~IsNull(ret)
    /\ args.excludedEdges # {} /\ args.excludedNodes # {}
    /\ \E q \in PermittedPaths(graph, args.startId, args.endId, {}, {}) :
           TrueCost(graph, q) < ret.cost
    /\ \E q \in Permitted : TrueCost(graph, q) > ret.cost
    /\ Len(ret.path) >= 3

\* C2: the result is null exactly when no permitted path exists.
C2_NullIffUnreachable ==
    DijkstraReturned => (IsNull(ret) <=> Permitted = {})

\* A null result caused by the exclusions alone.
C2_Witness ==
    /\ DijkstraReturned /\ IsNull(ret)
    /\ PermittedPaths(graph, args.startId, args.endId, {}, {}) # {}

\* C3: a result lists no excluded connection and takes no hop over an
\* adjacency entry of an excluded connection.
C3_NoExcludedEdge ==
    (DijkstraReturned /\ ~IsNull(ret)) =>
        /\ \A p \in 1..Len(ret.edges) : ret.edges[p] \notin args.excludedEdges
        /\ \A p \in 1..(Len(ret.path) - 1) :
               \A e \in Entries(graph, ret.path[p], ret.path[p + 1]) :
                   e.edgeId \notin args.excludedEdges

\* A result that goes round an excluded bidirectional connection which the
\* unrestricted search would have crossed against its from-to direction.
C3_Witness ==
    /\ DijkstraReturned /\ ~IsNull(ret)
    /\ LET free == dijkstra(graph, args.startId, args.endId, {}, args.excludedNodes)
       IN \E p \in 1..(Len(free.path) - 1) :
              /\ free.edges[p] \in args.excludedEdges
              /\ edges[free.edges[p]].from = free.path[p + 1]

\* C4: no excluded node is an intermediate node of a result, and listing
\* the source or the target as excluded does not change the result.
C4_ExcludedNodes ==
    DijkstraReturned =>
        /\ ~IsNull(ret) =>
               \A p \in 2..(Len(ret.path) - 1) : ret.path[p] \notin args.excludedNodes
        /\ \A n \in {args.startId, args.endId} :
               /\ dijkstra(graph, args.startId, args.endId, args.excludedEdges,
                           args.excludedNodes \cup {n}) = ret
               /\ dijkstra(graph, args.startId, args.endId, args.excludedEdges,
                           args.excludedNodes \ {n}) = ret

\* A result of several hops found although the target is listed as excluded.
C4_Witness ==
    /\ DijkstraReturned /\ ~IsNull(ret)
    /\ args.endId \in args.excludedNodes
    /\ Len(ret.path) >= 3

(***************************************************************************)
(* Claims about findKShortestPaths.                                        *)
(***************************************************************************)
Returned == pc = "findKReturned"

\* C5: the returned list is non-decreasing in its cost fields.
C5_Monotone ==
    Returned => \A a, b \in 1..Len(ret) : a < b => ret[a].cost <= ret[b].cost

\* C6: every returned path carries as its cost the sum of the traversal
\* costs over the consecutive pairs of its node sequence.
C6_CostIsPathCost ==
    Returned => \A a \in 1..Len(ret) : ret[a].cost = TrueCost(graph, ret[a].path)

\* C7: for i >= 1 the (i+1)-th returned path has minimum true cost among the
\* loopless source-to-target paths other than the first i returned ones.
C7_NextBest ==
    Returned =>
        \A a \in 2..Len(ret) :
            LET others == PermittedPaths(graph, args.startId, args.endId, {}, {})
                              \ {ret[b].path : b \in 1..(a - 1)}
            IN /\ ret[a].path \in others
               /\ TrueCost(graph, ret[a].path) = MinOf({TrueCost(graph, q) : q \in others})

\* C8: no two returned paths have the same node sequence.
C8_Distinct ==
    Returned => \A a, b \in 1..Len(ret) : a # b => ret[a].path # ret[b].path

\* Four distinct paths are returned.
C8_Witness == Returned /\ Len(ret) >= 4

\* C9: every returned path is loopless.
C9_Loopless ==
    Returned =>
        \A a \in 1..Len(ret) :
            \A p, q \in 1..Len(ret[a].path) : p # q => ret[a].path[p] # ret[a].path[q]

\* A returned path that leaves the first path after its second node, runs
\* on for two more hops, and could have gone back to the source.
C9_Witness ==
    /\ Returned
    /\ \E a \in 2..Len(ret) :
           /\ Len(ret[a].path) >= 4
           /\ Len(ret[1].path) >= 3
           /\ ret[a].path[2] = ret[1].path[2]
           /\ ret[a].path[3] # ret[1].path[3]
           /\ Entries(graph, ret[a].path[2], ret[a].path[1]) # {}

\* C10: at most k paths are returned; none when dijkstra finds no path, and
\* otherwise the first one is the dijkstra result.
C10_AtMostK ==
    Returned =>
        LET first == dijkstra(graph, args.startId, args.endId, {}, {})
        IN /\ Len(ret) <= args.k
           /\ IsNull(first) => ret = <<>>
           /\ ~IsNull(first) => Len(ret) >= 1 /\ ret[1] = first

(***************************************************************************)
(* Map data as it can come out of an imported file: connections between    *)
(* any two ids, known or not, several on one pair, with the bidirectional  *)
(* flag present or absent.                                                 *)
(***************************************************************************)
NumKnown == 2
MaxLooseConns == 2

\* The ids of the waypoints, and one id that no waypoint has.
KnownIds == 1..NumKnown
LooseIds == 1..(NumKnown + 1)

LooseConnChoices(p) ==
    {[id |-> p, from |-> a, to |-> b, cost |-> c, bidirectional |-> f] :
        a \in LooseIds, b \in LooseIds, c \in 1..MaxCost, f \in BOOLEAN}
    \cup {[id |-> p, from |-> a, to |-> b, cost |-> c] :
        a \in LooseIds, b \in LooseIds, c \in 1..MaxCost}

RECURSIVE LooseListsOfLen(_)
LooseListsOfLen(n) ==
    IF n = 0 THEN {<<>>}
    ELSE {Append(es, c) : es \in LooseListsOfLen(n - 1), c \in LooseConnChoices(n)}

\* Every list of at most n connections.
RECURSIVE LooseListsUpTo(_)
LooseListsUpTo(n) ==
    IF n = 0 THEN {<<>>} ELSE LooseListsUpTo(n - 1) \cup LooseListsOfLen(n)

InitLoose ==
    /\ search = NoSearch
    /\ viewer = NoViewer
    /\ storage = NoStorage
    /\ waypoints = [p \in KnownIds |-> [id |-> p]]
    /\ edges \in LooseListsUpTo(MaxLooseConns)
    /\ graph = EmptyMap
    /\ pc = "new"
    /\ args = NoArgs
    /\ ret = Null
    /\ paths = <<>>
    /\ potentialPaths = <<>>
    /\ i = 0
    /\ j = 0
    /\ store = FreshStore
    /\ layer = NoLayer
    /\ image = NoImage

\* dijkstra called with any two ids.
LooseDijkstraCalls ==
    /\ pc = "ready"
    /\ \E s \in LooseIds, t \in LooseIds :
           \E X \in SmallSubsets(1..Len(edges)), N \in SmallSubsets(LooseIds) :
               CallDijkstra(s, t, X, N)

\* findKShortestPaths called with any two ids.
LooseFindKCalls ==
    /\ pc = "ready"
    /\ \E s \in LooseIds, t \in LooseIds, k \in 0..MaxK : FindKStart(s, t, k)

NextLoose ==
    \/ BuildGraph
    \/ LooseDijkstraCalls
    \/ LooseFindKCalls
    \/ OuterLoop
    \/ SpurSearch
    \/ AcceptBest

SpecLoose == InitLoose /\ [][NextLoose]_vars

(***************************************************************************)
(* buildGraph on its own, over connection lists that also hold curved      *)
(* connections.                                                            *)
(***************************************************************************)
NumBuildNodes == 3
CurveLength == 2

\* The ids of the waypoints handed to buildGraph, and one id that no
\* waypoint has.
BuildIds == 1..(NumBuildNodes + 1)

\* The curve fields of a connection record: a straight connection, a bezier
\* connection without its control points, and a bezier connection whose
\* curve is CurveLength times as long as the straight line, or whose two
\* waypoints lie on one point.
CurveShapes ==
    {[type |-> "straight", controlPoints |-> 0, bezierLength |-> 0, straightLength |-> CurveLength],
     [type |-> "bezier", controlPoints |-> 0, bezierLength |-> CurveLength, straightLength |-> 1],
     [type |-> "bezier", controlPoints |-> 2, bezierLength |-> CurveLength, straightLength |-> 1],
     [type |-> "bezier", controlPoints |-> 2, bezierLength |-> CurveLength, straightLength |-> 0]}

BuildConnChoices(p) ==
    {[id |-> p, from |-> a, to |-> b, cost |-> c, bidirectional |-> f,
      type |-> sh.type, controlPoints |-> sh.controlPoints,
      bezierLength |-> sh.bezierLength, straightLength |-> sh.straightLength] :
        a \in BuildIds, b \in BuildIds, c \in 1..MaxCost, f \in BOOLEAN,
        sh \in CurveShapes}
    \cup {[id |-> p, from |-> a, to |-> b, cost |-> c,
           type |-> sh.type, controlPoints |-> sh.controlPoints,
           bezierLength |-> sh.bezierLength, straightLength |-> sh.straightLength] :
        a \in BuildIds, b \in BuildIds, c \in 1..MaxCost, sh \in CurveShapes}

RECURSIVE BuildListsOfLen(_)
BuildListsOfLen(n) ==
    IF n = 0 THEN {<<>>}
    ELSE {Append(es, c) : es \in BuildListsOfLen(n - 1), c \in BuildConnChoices(n)}

RECURSIVE BuildListsUpTo(_)
BuildListsUpTo(n) ==
    IF n = 0 THEN {<<>>} ELSE BuildListsUpTo(n - 1) \cup BuildListsOfLen(n)

InitBuild ==
    /\ search = NoSearch
    /\ viewer = NoViewer
    /\ storage = NoStorage
    /\ waypoints = [p \in 1..NumBuildNodes |-> [id |-> p]]
    /\ edges \in BuildListsUpTo(MaxLooseConns)
    /\ graph = EmptyMap
    /\ pc = "new"
    /\ args = NoArgs
    /\ ret = Null
    /\ paths = <<>>
    /\ potentialPaths = <<>>
    /\ i = 0
    /\ j = 0
    /\ store = FreshStore
    /\ layer = NoLayer
    /\ image = NoImage

NextBuild == BuildGraph

SpecBuild == InitBuild /\ [][NextBuild]_vars

(***************************************************************************)
(* Terrain: the grid layer over the map image (src/js/models/Terrain.js).  *)
(*                                                                         *)
(* Cell coordinates, radii and pixel coordinates are whole numbers here.   *)
(* Cost multipliers are counted in tenths, so 10 is the multiplier 1.  The *)
(* value null of a grid cell or of a typeId argument is Unset.             *)
(***************************************************************************)
DEFAULT_TERRAIN_TYPES ==
    <<[id |-> "clear", cost |-> 10],
      [id |-> "grassland", cost |-> 15],
      [id |-> "forest", cost |-> 25],
      [id |-> "hills", cost |-> 30],
      [id |-> "mountain", cost |-> 50],
      [id |-> "swamp", cost |-> 40],
      [id |-> "water", cost |-> 80],
      [id |-> "impassable", cost |-> 9990]>>

Unset == "null"

Max(a, b) == IF a >= b THEN a ELSE b

Min(a, b) == IF a <= b THEN a ELSE b

\* Math.round(a / b) for b > 0: the nearest whole number, a half going up.
RoundDiv(a, b) == (2 * a + b) \div (2 * b)

\* Math.floor(a / b) for b > 0.
FloorDiv(a, b) == a \div b

createTerrainLayer(imageWidth, imageHeight, gridSize) ==
    LET wide == imageWidth >= imageHeight
        gridWidth == IF wide THEN gridSize
                     ELSE Max(1, RoundDiv(gridSize * imageWidth, imageHeight))
        gridHeight == IF wide THEN Max(1, RoundDiv(gridSize * imageHeight, imageWidth))
                      ELSE gridSize
    IN [gridWidth |-> gridWidth,
        gridHeight |-> gridHeight,
        grid |-> [p \in 1..(gridWidth * gridHeight) |-> Unset],
        types |-> DEFAULT_TERRAIN_TYPES]

InGrid(terrain, cellX, cellY) ==
    cellX >= 0 /\ cellX < terrain.gridWidth /\ cellY >= 0 /\ cellY < terrain.gridHeight

\* The position in the flat row-major grid; sequences count from 1.
GridIndex(terrain, cellX, cellY) == cellY * terrain.gridWidth + cellX + 1

getTerrainAt(terrain, cellX, cellY) ==
    IF ~InGrid(terrain, cellX, cellY) THEN Unset
    ELSE terrain.grid[GridIndex(terrain, cellX, cellY)]

\* Mutant: the cell is written without the bounds check; a write past the
\* end of a JavaScript array makes it longer, the cells between left empty.
setTerrainAtUnchecked(terrain, cellX, cellY, typeId) ==
    LET index == GridIndex(terrain, cellX, cellY)
    IN IF index < 1 THEN terrain
       ELSE [terrain EXCEPT !.grid =
                [p \in 1..Max(Len(terrain.grid), index) |->
                    IF p = index THEN typeId
                    ELSE IF p <= Len(terrain.grid) THEN terrain.grid[p] ELSE Unset]]

setTerrainAt(terrain, cellX, cellY, typeId) ==
    IF ~InGrid(terrain, cellX, cellY) THEN terrain
    ELSE [terrain EXCEPT !.grid[GridIndex(terrain, cellX, cellY)] = typeId]

\* Mutant: a square brush, without the distance test.
PaintCellSquare(terrain, newGrid, centerX, centerY, radius, typeId, dx, dy) ==
    IF InGrid(terrain, centerX + dx, centerY + dy)
    THEN [newGrid EXCEPT ![GridIndex(terrain, centerX + dx, centerY + dy)] = typeId]
    ELSE newGrid

\* Mutant: a cell that holds the type already is cleared.
PaintCellToggle(terrain, newGrid, centerX, centerY, radius, typeId, dx, dy) ==
    IF dx * dx + dy * dy <= radius * radius /\ InGrid(terrain, centerX + dx, centerY + dy)
    THEN [newGrid EXCEPT ![GridIndex(terrain, centerX + dx, centerY + dy)] =
             IF @ = typeId THEN Unset ELSE typeId]
    ELSE newGrid

\* Lines 126-135: the body of the inner loop.  Math.round of a whole number
\* is that number.
PaintCell(terrain, newGrid, centerX, centerY, radius, typeId, dx, dy) ==
    IF dx * dx + dy * dy <= radius * radius /\ InGrid(terrain, centerX + dx, centerY + dy)
    THEN [newGrid EXCEPT ![GridIndex(terrain, centerX + dx, centerY + dy)] = typeId]
    ELSE newGrid

\* Lines 124-137: the two loops, dy outside and dx inside, from (dx, dy) on.
RECURSIVE PaintLoop(_, _, _, _, _, _, _, _)
PaintLoop(terrain, newGrid, centerX, centerY, radius, typeId, dx, dy) ==
    IF dy > radius THEN newGrid
    ELSE IF dx > radius
         THEN PaintLoop(terrain, newGrid, centerX, centerY, radius, typeId,
                        -radius, dy + 1)
         ELSE PaintLoop(terrain,
                        PaintCell(terrain, newGrid, centerX, centerY, radius,
                                  typeId, dx, dy),
                        centerX, centerY, radius, typeId, dx + 1, dy)

\* Mutant: the loops write into the grid of the layer they were given.
paintTerrainInPlace(terrain, centerX, centerY, radius, typeId) ==
    LET newGrid == PaintLoop(terrain, terrain.grid, centerX, centerY, radius,
                             typeId, -radius, -radius)
    IN [returned |-> [terrain EXCEPT !.grid = newGrid],
        argument |-> [terrain EXCEPT !.grid = newGrid]]

\* paintTerrain gives the layer it returns and the layer it was given as
\* that one is after the call: the loops write into a copy of the grid.
paintTerrain(terrain, centerX, centerY, radius, typeId) ==
    LET newGrid == PaintLoop(terrain, terrain.grid, centerX, centerY, radius,
                             typeId, -radius, -radius)
    IN [returned |-> [terrain EXCEPT !.grid = newGrid],
        argument |-> terrain]

\* Mutant: the cell coordinates are not clamped into the grid.
imageToGridUnclamped(imageX, imageY, imageWidth, imageHeight, terrain) ==
    [cellX |-> FloorDiv(imageX * terrain.gridWidth, imageWidth),
     cellY |-> FloorDiv(imageY * terrain.gridHeight, imageHeight)]

imageToGrid(imageX, imageY, imageWidth, imageHeight, terrain) ==
    LET cellX == FloorDiv(imageX * terrain.gridWidth, imageWidth)
        cellY == FloorDiv(imageY * terrain.gridHeight, imageHeight)
    IN [cellX |-> Max(0, Min(terrain.gridWidth - 1, cellX)),
        cellY |-> Max(0, Min(terrain.gridHeight - 1, cellY))]

\* terrain.types.find(t => t.id === typeId), as a sequence of at most one
\* type (empty for null).
getTerrainType(terrain, typeId) ==
    LET found == SelectSeq(terrain.types, LAMBDA t : t.id = typeId)
    IN IF Len(found) = 0 THEN <<>> ELSE <<found[1]>>

getTerrainCostAt(terrain, imageX, imageY, imageWidth, imageHeight) ==
    LET cell == imageToGrid(imageX, imageY, imageWidth, imageHeight, terrain)
        typeId == getTerrainAt(terrain, cell.cellX, cell.cellY)
    IN IF typeId = Unset THEN 10
       ELSE LET type == getTerrainType(terrain, typeId)
            IN IF Len(type) > 0 THEN type[1].cost ELSE 10

(***************************************************************************)
(* The terrain layer of a map under painting.                              *)
(***************************************************************************)
MaxImage == 3
MaxGrid == 2
MaxRadius == 2

\* The type ids handed to the brush: null, a default type, and an id that
\* is not in the type list.
PaintTypes == {Unset, "forest", "lava"}

\* Cell coordinates handed to the brush: the grid and one cell beyond it.
CellXs == -1..layer.gridWidth
CellYs == -1..layer.gridHeight

\* Pixel coordinates of a cost query: the image and one pixel beyond it.
PixelXs == -1..(image.width + 1)
PixelYs == -1..(image.height + 1)

InitTerrain ==
    /\ search = NoSearch
    /\ viewer = NoViewer
    /\ storage = NoStorage
    /\ waypoints = <<>>
    /\ edges = <<>>
    /\ graph = EmptyMap
    /\ pc = "new"
    /\ args = NoArgs
    /\ ret = Null
    /\ paths = <<>>
    /\ potentialPaths = <<>>
    /\ i = 0
    /\ j = 0
    /\ store = FreshStore
    /\ layer = NoLayer
    /\ image \in [width : 1..MaxImage, height : 1..MaxImage, gridSize : 1..MaxGrid]

\* The layer is created on the first paint of a map.
CreateTerrainLayer ==
    /\ pc = "new"
    /\ layer = NoLayer
    /\ layer' = createTerrainLayer(image.width, image.height, image.gridSize)
    /\ args' = [imageWidth |-> image.width, imageHeight |-> image.height,
                gridSize |-> image.gridSize]
    /\ ret' = layer'
    /\ pc' = "created"
    /\ UNCHANGED <<appVars, search, waypoints, edges, graph, paths, potentialPaths, i, j, store, image>>

\* One brush stroke; the returned layer becomes the layer of the map.
PaintTerrain ==
    /\ pc = "idle"
    /\ \E centerX \in CellXs, centerY \in CellYs, radius \in 0..MaxRadius,
          typeId \in PaintTypes :
           /\ args' = [terrain |-> layer, centerX |-> centerX, centerY |-> centerY,
                       radius |-> radius, typeId |-> typeId]
           /\ ret' = paintTerrain(layer, centerX, centerY, radius, typeId)
           /\ layer' = ret'.returned
    /\ pc' = "painted"
    /\ UNCHANGED <<appVars, search, waypoints, edges, graph, paths, potentialPaths, i, j, store, image>>

SetTerrainAt ==
    /\ pc = "idle"
    /\ \E cellX \in CellXs, cellY \in CellYs, typeId \in PaintTypes :
           /\ args' = [terrain |-> layer, cellX |-> cellX, cellY |-> cellY,
                       typeId |-> typeId]
           /\ ret' = setTerrainAt(layer, cellX, cellY, typeId)
           /\ layer' = ret'
    /\ pc' = "set"
    /\ UNCHANGED <<appVars, search, waypoints, edges, graph, paths, potentialPaths, i, j, store, image>>

GetTerrainCostAt ==
    /\ pc = "idle"
    /\ \E imageX \in PixelXs, imageY \in PixelYs :
           /\ args' = [terrain |-> layer, imageX |-> imageX, imageY |-> imageY]
           /\ ret' = getTerrainCostAt(layer, imageX, imageY, image.width, image.height)
    /\ pc' = "costed"
    /\ UNCHANGED <<appVars, search, waypoints, edges, graph, paths, potentialPaths, i, j, store, layer, image>>

\* The handler that made the call is done; its arguments and the value it
\* got back are gone, and the layer of the map waits for the next call.
TerrainCallDone ==
    /\ pc \in {"created", "painted", "set", "costed"}
    /\ pc' = "idle"
    /\ args' = NoArgs
    /\ ret' = Null
    /\ UNCHANGED <<appVars, search, waypoints, edges, graph, paths, potentialPaths, i, j, store, layer, image>>

NextTerrain ==
    \/ CreateTerrainLayer
    \/ TerrainCallDone
    \/ PaintTerrain
    \/ SetTerrainAt
    \/ GetTerrainCostAt

SpecTerrain == InitTerrain /\ [][NextTerrain]_vars

(***************************************************************************)
(* The terrain cost of a connection (calculateEdgeTerrainCost).            *)
(*                                                                         *)
(* A cost that is not rounded yet is a fraction num / den of whole         *)
(* numbers; a rounded cost is a whole number of tenths.  The points of a   *)
(* sampled line have their coordinates in numSamples-th parts of a pixel.  *)
(* The two waypoints are a whole number of pixels apart, and the           *)
(* connection is straight.                                                 *)
(***************************************************************************)
EdgeImageSize == 200
NumSamples == 20

\* The largest root in lo..hi whose square is at most n.
RECURSIVE RootBetween(_, _, _)
RootBetween(n, lo, hi) ==
    IF lo >= hi THEN lo
    ELSE LET mid == (lo + hi + 1) \div 2
         IN IF mid * mid <= n THEN RootBetween(n, mid, hi)
                              ELSE RootBetween(n, lo, mid - 1)

\* Math.sqrt of a square number.
Sqrt(n) == RootBetween(n, 0, n)

IsSquare(n) == Sqrt(n) * Sqrt(n) = n

\* Mutant: the cost is cut off after the first decimal.
RoundToTenthFloor(cost) == FloorDiv(10 * cost.num, cost.den)

\* Math.round(cost * 10) / 10, in tenths.
RoundToTenth(cost) == RoundDiv(10 * cost.num, cost.den)

\* sampleLine: point i has x = x1 + (x2 - x1) * i / numSamples.
sampleLine(x1, y1, x2, y2, numSamples) ==
    [p \in 1..(numSamples + 1) |->
        [x |-> numSamples * x1 + (x2 - x1) * (p - 1),
         y |-> numSamples * y1 + (y2 - y1) * (p - 1)]]

\* Lines 217-230: the sum of dist * cost over the segments from segment p
\* on, in parts of a pixel times tenths.  The midpoint of a segment is
\* taken in half parts.
RECURSIVE PathCostFrom(_, _, _, _, _, _)
PathCostFrom(terrain, points, parts, imageWidth, imageHeight, p) ==
    IF p > Len(points) - 1 THEN 0
    ELSE LET p1 == points[p]
             p2 == points[p + 1]
             dist == Sqrt((p2.x - p1.x) * (p2.x - p1.x) + (p2.y - p1.y) * (p2.y - p1.y))
             cost == getTerrainCostAt(terrain, p1.x + p2.x, p1.y + p2.y,
                                      2 * parts * imageWidth, 2 * parts * imageHeight)
         IN dist * cost
                + PathCostFrom(terrain, points, parts, imageWidth, imageHeight, p + 1)

calculatePathTerrainCost(terrain, points, parts, imageWidth, imageHeight) ==
    IF Len(points) < 2 THEN [num |-> 0, den |-> 1]
    ELSE [num |-> PathCostFrom(terrain, points, parts, imageWidth, imageHeight, 1),
          den |-> parts * 10 * 100]

\* The distance-based cost of line 297, not rounded.
DistanceCost(fromWp, toWp) ==
    [num |-> Sqrt((toWp.x - fromWp.x) * (toWp.x - fromWp.x)
                      + (toWp.y - fromWp.y) * (toWp.y - fromWp.y)),
     den |-> 100]

calculateEdgeTerrainCost(edge, fromWp, toWp, terrain, imageWidth, imageHeight) ==
    IF terrain = NoLayer
    THEN RoundToTenth(DistanceCost(fromWp, toWp))
    ELSE LET points == sampleLine(fromWp.x, fromWp.y, toWp.x, toWp.y, NumSamples)
         IN RoundToTenth(calculatePathTerrainCost(terrain, points, NumSamples,
                                                  imageWidth, imageHeight))

\* The waypoint positions of the input domain.
EdgePoints ==
    {[x |-> 0, y |-> 0], [x |-> 123, y |-> 0], [x |-> 40, y |-> 30],
     [x |-> 120, y |-> 50], [x |-> 0, y |-> 45], [x |-> 200, y |-> 0],
     [x |-> 200, y |-> 150], [x |-> 40, y |-> 200]}

\* The pairs of positions a whole number of pixels apart.
EdgeEnds ==
    {pr \in EdgePoints \X EdgePoints :
        IsSquare((pr[2].x - pr[1].x) * (pr[2].x - pr[1].x)
                     + (pr[2].y - pr[1].y) * (pr[2].y - pr[1].y))}

InitEdgeCost ==
    /\ search = NoSearch
    /\ viewer = NoViewer
    /\ storage = NoStorage
    /\ waypoints = <<>>
    /\ edges = <<>>
    /\ graph = EmptyMap
    /\ pc = "new"
    /\ args = NoArgs
    /\ ret = Null
    /\ paths = <<>>
    /\ potentialPaths = <<>>
    /\ i = 0
    /\ j = 0
    /\ store = FreshStore
    /\ layer = NoLayer
    /\ image \in [width : {EdgeImageSize}, height : {EdgeImageSize},
                  gridSize : 1..MaxGrid]

\* The cost of a new straight connection, or its recalculation.
CalculateEdgeTerrainCost ==
    /\ pc \in {"new", "idle"}
    /\ \E ends \in EdgeEnds :
           /\ args' = [edge |-> [type |-> "straight"], fromWp |-> ends[1],
                       toWp |-> ends[2], terrain |-> layer]
           /\ ret' = calculateEdgeTerrainCost([type |-> "straight"], ends[1], ends[2],
                                              layer, image.width, image.height)
    /\ pc' = IF layer = NoLayer THEN "costedNoTerrain" ELSE "costedTerrain"
    /\ UNCHANGED <<appVars, search, waypoints, edges, graph, paths, potentialPaths, i, j, store, layer, image>>

\* The handler that asked for the cost is done.
EdgeCostDone ==
    /\ pc \in {"costedNoTerrain", "costedTerrain"}
    /\ pc' = IF layer = NoLayer THEN "new" ELSE "idle"
    /\ args' = NoArgs
    /\ ret' = Null
    /\ UNCHANGED <<appVars, search, waypoints, edges, graph, paths, potentialPaths, i, j, store, layer, image>>

NextEdgeCost ==
    \/ CreateTerrainLayer
    \/ PaintTerrain
    \/ TerrainCallDone
    \/ CalculateEdgeTerrainCost
    \/ EdgeCostDone

SpecEdgeCost == InitEdgeCost /\ [][NextEdgeCost]_vars

(***************************************************************************)
(* The StateStore under editing: waypoints and connections are added and   *)
(* deleted, and the changes are undone and redone.                         *)
(***************************************************************************)
NumStoreNodes == 3
NumStoreEdges == 2
MaxHistory == 4

StoreNodeIds == 1..NumStoreNodes
StoreEdgeIds == 1..NumStoreEdges

IdsOf(records) == {records[p].id : p \in 1..Len(records)}

\* A history-recording mutation is taken while its snapshot fits the bound.
HistoryRoom == Len(pushHistory(store).history) <= MaxHistory

InitStore ==
    /\ search = NoSearch
    /\ viewer = NoViewer
    /\ storage = NoStorage
    /\ waypoints = <<>>
    /\ edges = <<>>
    /\ graph = EmptyMap
    /\ pc = "new"
    /\ args = NoArgs
    /\ ret = Null
    /\ paths = <<>>
    /\ potentialPaths = <<>>
    /\ i = 0
    /\ j = 0
    /\ store = FreshStore
    /\ layer = NoLayer
    /\ image = NoImage

\* The variables a call of the store leaves alone.
storeFrame ==
    <<waypoints, edges, graph, ret, paths, potentialPaths, i, j, search, layer, image,
      appVars>>

\* A history-recording mutation has led to the store next: the map data
\* before and after it are kept for the undo and the redo that may follow.
Mutated(next) ==
    /\ store' = next
    /\ pc' = IF store.mapOpen THEN "mutated" ELSE "idle"
    /\ args' = IF store.mapOpen
               THEN [before |-> Snapshot(store), after |-> Snapshot(next)]
               ELSE NoArgs
    /\ UNCHANGED storeFrame

\* A new waypoint; generateId gives it an id no waypoint of the map has.
StoreAddWaypoint ==
    /\ HistoryRoom
    /\ \E w \in StoreNodeIds \ IdsOf(store.waypoints) :
           Mutated(addWaypoint(store, [id |-> w]))

\* A new connection between two waypoints of the map.
StoreAddEdge ==
    /\ HistoryRoom
    /\ \E e \in StoreEdgeIds \ IdsOf(store.edges) :
           \E a \in IdsOf(store.waypoints), b \in IdsOf(store.waypoints) :
               /\ a # b
               /\ Mutated(addEdge(store, [id |-> e, from |-> a, to |-> b]))

\* A waypoint is renamed in the properties panel.
StoreUpdateWaypoint ==
    /\ HistoryRoom
    /\ \E w \in StoreNodeIds :
           Mutated(updateWaypoint(store, w, [name |-> "Inn"], TRUE))

\* The cost of a connection is set in the properties panel.
StoreUpdateEdge ==
    /\ HistoryRoom
    /\ \E e \in StoreEdgeIds :
           Mutated(updateEdge(store, e, [cost |-> MaxCost], TRUE))

StoreDeleteWaypoint ==
    /\ HistoryRoom
    /\ \E w \in StoreNodeIds : Mutated(deleteWaypoint(store, w))

StoreDeleteEdge ==
    /\ HistoryRoom
    /\ \E e \in StoreEdgeIds : Mutated(deleteEdge(store, e))

StoreUndo ==
    /\ store' = undo(store).store
    /\ pc' = IF pc = "mutated" THEN "undone"
           ELSE IF pc = "recalculated" THEN "recalcUndone" ELSE "idle"
    /\ args' = IF pc \in {"mutated", "recalculated"} THEN args ELSE NoArgs
    /\ UNCHANGED storeFrame

StoreRedo ==
    /\ store' = redo(store).store
    /\ pc' = IF pc = "undone" THEN "redone" ELSE "idle"
    /\ args' = IF pc = "undone" THEN args ELSE NoArgs
    /\ UNCHANGED storeFrame

NextStore ==
    \/ StoreAddWaypoint
    \/ StoreAddEdge
    \/ StoreUpdateWaypoint
    \/ StoreUpdateEdge
    \/ StoreDeleteWaypoint
    \/ StoreDeleteEdge
    \/ StoreUndo
    \/ StoreRedo

SpecStore == InitStore /\ [][NextStore]_vars

(***************************************************************************)
(* A long editing session: one waypoint is renamed again and again, and    *)
(* the renamings are undone and redone.  The name given is always the      *)
(* same, so that all snapshots are equal and the history is told by its    *)
(* length; the terrain layer is removed, the map is deleted and the        *)
(* history is cleared at any time.  The history is followed up to          *)
(* MaxExcess snapshots beyond MAX_HISTORY_SIZE.                            *)
(***************************************************************************)
MaxExcess == 2

HistoryFollowed == Len(store.history) < MAX_HISTORY_SIZE + MaxExcess

InitHistory ==
    /\ search = NoSearch
    /\ viewer = NoViewer
    /\ storage = NoStorage
    /\ waypoints = <<>>
    /\ edges = <<>>
    /\ graph = EmptyMap
    /\ pc = "new"
    /\ args = NoArgs
    /\ ret = Null
    /\ paths = <<>>
    /\ potentialPaths = <<>>
    /\ i = 0
    /\ j = 0
    /\ store = addWaypoint(FreshStore, [id |-> 1, name |-> "Inn"])
    /\ layer = NoLayer
    /\ image = NoImage

HistoryUpdateWaypoint ==
    /\ HistoryFollowed
    /\ store' = updateWaypoint(store, 1, [name |-> "Inn"], TRUE)
    /\ UNCHANGED <<routeVars, terrainVars, appVars>>

HistoryUndo ==
    /\ HistoryFollowed
    /\ store' = undo(store).store
    /\ UNCHANGED <<routeVars, terrainVars, appVars>>

HistoryRedo ==
    /\ store' = redo(store).store
    /\ UNCHANGED <<routeVars, terrainVars, appVars>>

\* The terrain layer is removed (EditorController.js line 178), with or
\* without a snapshot.
HistorySetTerrain ==
    /\ HistoryFollowed
    /\ \E recordHistory \in BOOLEAN :
           store' = setTerrain(store, NoLayer, recordHistory)
    /\ UNCHANGED <<routeVars, terrainVars, appVars>>

\* The current map is deleted from the map list.
HistoryDeleteMap ==
    /\ store.mapOpen
    /\ store' = deleteMap(store)
    /\ UNCHANGED <<routeVars, terrainVars, appVars>>

HistoryClearHistory ==
    /\ store' = clearHistory(store)
    /\ UNCHANGED <<routeVars, terrainVars, appVars>>

NextHistory ==
    \/ HistoryUpdateWaypoint
    \/ HistoryUndo
    \/ HistoryRedo
    \/ HistorySetTerrain
    \/ HistoryDeleteMap
    \/ HistoryClearHistory

SpecHistory == InitHistory /\ [][NextHistory]_vars

(***************************************************************************)
(* Terrain painting and "Recalc All Costs" in the editor                   *)
(* (src/js/ui/EditorController.js).  The map has three waypoints and two   *)
(* straight connections with the costs their distances give; costs are in  *)
(* tenths.  image.gridSize is the resolution of a layer created by the     *)
(* brush.                                                                  *)
(***************************************************************************)
\* A recalculation is followed while the history has room for one snapshot
\* for each connection.
MaxRecalcHistory == 2

\* waypointMap.get(id), as a sequence of at most one waypoint.
getWaypoint(st, waypointId) == SelectSeq(st.waypoints, LAMBDA wp : wp.id = waypointId)

\* The forEach of recalculateAllEdgeCosts from connection p of the list
\* the handler read on; st is the store the earlier updates have left.
RECURSIVE RecalculateFrom(_, _, _, _, _, _)
RecalculateFrom(st, mapEdges, terrain, imageWidth, imageHeight, p) ==
    IF p > Len(mapEdges) THEN st
    ELSE LET edge == mapEdges[p]
             fromWp == getWaypoint(st, edge.from)
             toWp == getWaypoint(st, edge.to)
             newCost == calculateEdgeTerrainCost(edge, fromWp[1], toWp[1], terrain,
                                                 imageWidth, imageHeight)
             updated == IF edge.costOverride \/ fromWp = <<>> \/ toWp = <<>>
                        THEN st
                        ELSE IF newCost # edge.cost
                        THEN updateEdge(st, edge.id, [cost |-> newCost], TRUE)
                        ELSE st
         IN RecalculateFrom(updated, mapEdges, terrain, imageWidth, imageHeight, p + 1)

recalculateAllEdgeCosts(st, imageWidth, imageHeight) ==
    IF ~st.mapOpen \/ st.terrain = NoLayer THEN st
    ELSE RecalculateFrom(st, st.edges, st.terrain, imageWidth, imageHeight, 1)

paintAt(st, canvasPos, imageWidth, imageHeight, gridSize, brushSize, selectedTerrainType) ==
    IF canvasPos.x < 0 \/ canvasPos.x > imageWidth
           \/ canvasPos.y < 0 \/ canvasPos.y > imageHeight
    THEN st
    ELSE LET terrain == IF st.terrain = NoLayer
                        THEN createTerrainLayer(imageWidth, imageHeight, gridSize)
                        ELSE st.terrain
             cell == imageToGrid(canvasPos.x, canvasPos.y, imageWidth, imageHeight,
                                 terrain)
             newTerrain == paintTerrain(terrain, cell.cellX, cell.cellY, brushSize,
                                        selectedTerrainType).returned
         IN setTerrain(st, newTerrain, FALSE)

\* The map as it was loaded: the connections were made before any terrain.
RecalcWaypoints ==
    <<[id |-> 1, x |-> 0, y |-> 0], [id |-> 2, x |-> 200, y |-> 0],
      [id |-> 3, x |-> 200, y |-> 150]>>

RecalcEdge(id, from, to, costOverride) ==
    [id |-> id, from |-> from, to |-> to, type |-> "straight",
     costOverride |-> costOverride,
     cost |-> calculateEdgeTerrainCost([type |-> "straight"], RecalcWaypoints[from],
                                       RecalcWaypoints[to], NoLayer,
                                       EdgeImageSize, EdgeImageSize)]

InitRecalc ==
    /\ search = NoSearch
    /\ viewer = NoViewer
    /\ storage = NoStorage
    /\ waypoints = <<>>
    /\ edges = <<>>
    /\ graph = EmptyMap
    /\ pc = "idle"
    /\ args = NoArgs
    /\ ret = Null
    /\ paths = <<>>
    /\ potentialPaths = <<>>
    /\ i = 0
    /\ j = 0
    /\ \E costOverride \in BOOLEAN :
           store = [FreshStore EXCEPT
                       !.waypoints = RecalcWaypoints,
                       !.edges = <<RecalcEdge(1, 1, 2, FALSE),
                                   RecalcEdge(2, 2, 3, costOverride)>>]
    /\ layer = NoLayer
    /\ image \in [width : {EdgeImageSize}, height : {EdgeImageSize},
                  gridSize : 1..MaxGrid]

\* The positions of the pointer: the waypoints and the fourth corner.
PaintSpots ==
    {[x |-> RecalcWaypoints[p].x, y |-> RecalcWaypoints[p].y] :
        p \in 1..Len(RecalcWaypoints)} \cup {[x |-> 0, y |-> EdgeImageSize]}

\* One stroke of the terrain brush or of the eraser.
PaintAt ==
    /\ \E canvasPos \in PaintSpots, brushSize \in 1..MaxRadius,
          selectedTerrainType \in {"forest", Unset} :
           store' = paintAt(store, canvasPos, image.width, image.height,
                            image.gridSize, brushSize, selectedTerrainType)
    /\ pc' = "idle"
    /\ args' = NoArgs
    /\ UNCHANGED storeFrame

\* The button "Recalc All Costs".
RecalculateAllEdgeCosts ==
    /\ Len(store.history) + Len(store.edges) <= MaxRecalcHistory
    /\ store' = recalculateAllEdgeCosts(store, image.width, image.height)
    /\ pc' = "recalculated"
    /\ args' = [before |-> Snapshot(store), after |-> Snapshot(store')]
    /\ UNCHANGED storeFrame

NextRecalc ==
    \/ PaintAt
    \/ RecalculateAllEdgeCosts
    \/ StoreUndo
    \/ StoreRedo

SpecRecalc == InitRecalc /\ [][NextRecalc]_vars

(***************************************************************************)
(* Cubic Bezier curves: cubicBezierPoint and splitBezier.                  *)
(*                                                                         *)
(* Numbers are exact fractions num / den in lowest terms with den > 0, so  *)
(* the arithmetic of the functions is carried out without rounding.        *)
(***************************************************************************)
RECURSIVE GCD(_, _)
GCD(a, b) == IF b = 0 THEN a ELSE GCD(b, a % b)

\* The fraction n / d in lowest terms, for d > 0.
Frac(n, d) ==
    LET g == GCD(IF n < 0 THEN -n ELSE n, d)
    IN [num |-> n \div g, den |-> d \div g]

Whole(n) == [num |-> n, den |-> 1]

Plus(a, b) == Frac(a.num * b.den + b.num * a.den, a.den * b.den)

Minus(a, b) == Frac(a.num * b.den - b.num * a.den, a.den * b.den)

Times(a, b) == Frac(a.num * b.num, a.den * b.den)

cubicBezierPoint(p0, p1, p2, p3, t) ==
    LET t2 == Times(t, t)
        t3 == Times(t2, t)
        mt == Minus(Whole(1), t)
        mt2 == Times(mt, mt)
        mt3 == Times(mt2, mt)
        Blend(c0, c1, c2, c3) ==
            Plus(Plus(Plus(Times(mt3, c0),
                           Times(Times(Times(Whole(3), mt2), t), c1)),
                      Times(Times(Times(Whole(3), mt), t2), c2)),
                 Times(t3, c3))
    IN [x |-> Blend(p0.x, p1.x, p2.x, p3.x),
        y |-> Blend(p0.y, p1.y, p2.y, p3.y)]

lerp(a, b, t) ==
    [x |-> Plus(a.x, Times(Minus(b.x, a.x), t)),
     y |-> Plus(a.y, Times(Minus(b.y, a.y), t))]

\* Mutant: the inner control points of the right half change places.
splitBezierRightSwapped(p0, p1, p2, p3, t) ==
    LET p01 == lerp(p0, p1, t)
        p12 == lerp(p1, p2, t)
        p23 == lerp(p2, p3, t)
        p012 == lerp(p01, p12, t)
        p123 == lerp(p12, p23, t)
        p0123 == lerp(p012, p123, t)
    IN [left |-> <<p0, p01, p012, p0123>>,
        right |-> <<p0123, p23, p123, p3>>]

splitBezier(p0, p1, p2, p3, t) ==
    LET p01 == lerp(p0, p1, t)
        p12 == lerp(p1, p2, t)
        p23 == lerp(p2, p3, t)
        p012 == lerp(p01, p12, t)
        p123 == lerp(p12, p23, t)
        p0123 == lerp(p012, p123, t)
    IN [left |-> <<p0, p01, p012, p0123>>,
        right |-> <<p0123, p123, p23, p3>>]

\* Control points lie on the whole-number grid 0..MaxCurveCoord in both
\* directions; parameters are the multiples of 1 / CurveParts in 0..1.
MaxCurveCoord == 2
CurveParts == 4

CurvePoints ==
    {[x |-> Whole(x), y |-> Whole(y)] : x \in 0..MaxCurveCoord, y \in 0..MaxCurveCoord}

CurveParams == {Frac(n, CurveParts) : n \in 0..CurveParts}

InitBezier ==
    /\ search = NoSearch
    /\ viewer = NoViewer
    /\ storage = NoStorage
    /\ waypoints = <<>>
    /\ edges = <<>>
    /\ graph = EmptyMap
    /\ pc = "new"
    /\ args \in [p0 : {[x |-> Whole(0), y |-> Whole(0)]}, p1 : CurvePoints,
                 p2 : CurvePoints, p3 : CurvePoints, t : CurveParams]
    /\ ret = Null
    /\ paths = <<>>
    /\ potentialPaths = <<>>
    /\ i = 0
    /\ j = 0
    /\ store = FreshStore
    /\ layer = NoLayer
    /\ image = NoImage

SplitBezier ==
    /\ pc = "new"
    /\ ret' = splitBezier(args.p0, args.p1, args.p2, args.p3, args.t)
    /\ pc' = "split"
    /\ UNCHANGED <<appVars, search, waypoints, edges, graph, args, paths, potentialPaths, i, j,
                   store, layer, image>>

NextBezier == SplitBezier

SpecBezier == InitBezier /\ [][NextBezier]_vars

(***************************************************************************)
(* Claims about unknown ids and about buildGraph.                          *)
(***************************************************************************)
UnknownEndpoint ==
    args.startId \notin DOMAIN graph \/ args.endId \notin DOMAIN graph

\* C11: when the source id or the target id is not a node of the graph,
\* dijkstra returns null and findKShortestPaths returns an empty list,
\* also when both are the same unknown id.
C11_UnknownIdNoPath ==
    /\ (DijkstraReturned /\ UnknownEndpoint) => IsNull(ret)
    /\ (Returned /\ UnknownEndpoint) => ret = <<>>

Built == pc = "ready"

\* The flag as the data model reads it: bidirectional unless set to false.
IsBidirectional(c) == "bidirectional" \notin DOMAIN c \/ c.bidirectional

WaypointIds == {waypoints[p].id : p \in 1..Len(waypoints)}

Resolves(c) == c.from \in WaypointIds /\ c.to \in WaypointIds

\* Connection c asks for an adjacency entry from u to v.
Writes(c, u, v) ==
    /\ Resolves(c)
    /\ \/ c.from = u /\ c.to = v
       \/ c.from = v /\ c.to = u /\ IsBidirectional(c)

\* C12: an adjacency entry u->v exists exactly when some connection with
\* both endpoints among the nodes runs from u to v, or runs from v to u and
\* is bidirectional (also when the flag is absent).
C12_AdjacencyIff ==
    Built =>
        /\ DOMAIN graph = WaypointIds
        /\ \A u \in WaypointIds, v \in BuildIds :
               (Entries(graph, u, v) # {})
                   <=> \E p \in 1..Len(edges) : Writes(edges[p], u, v)

\* A one-way connection gave one entry and no reverse entry, and a
\* connection without the flag gave both of its entries.
C12_Witness ==
    /\ Built
    /\ \E p \in 1..Len(edges) :
           /\ Resolves(edges[p]) /\ ~IsBidirectional(edges[p])
           /\ Entries(graph, edges[p].from, edges[p].to) # {}
           /\ Entries(graph, edges[p].to, edges[p].from) = {}
    /\ \E p \in 1..Len(edges) :
           /\ Resolves(edges[p]) /\ "bidirectional" \notin DOMAIN edges[p]
           /\ edges[p].from # edges[p].to
           /\ Entries(graph, edges[p].from, edges[p].to) # {}
           /\ Entries(graph, edges[p].to, edges[p].from) # {}

\* The adjacency entry that connection c writes towards node v.
EntryOf(c, v) == [id |-> v, cost |-> edgeCost(c), edgeId |-> c.id]

IsCurvedConn(c) == c.type = "bezier" /\ c.controlPoints >= 2

\* C13 as stated: every connection whose endpoints resolve has its own id
\* and its own effective cost in the entry from its from node to its to
\* node, and in the reverse entry when it is bidirectional; the effective
\* cost of a connection that is not curved is its stored cost.
C13_OwnEntry ==
    Built =>
        \A p \in 1..Len(edges) :
            LET c == edges[p]
            IN Resolves(c) =>
                   /\ Entries(graph, c.from, c.to) = {EntryOf(c, c.to)}
                   /\ IsBidirectional(c) =>
                          Entries(graph, c.to, c.from) = {EntryOf(c, c.from)}
                   /\ ~IsCurvedConn(c) => edgeCost(c) = c.cost

\* C13 amended: the same for every entry that no later connection of the
\* list writes; an entry that several connections write carries the id and
\* the effective cost of the last of them.
C13_LastWriterEntry ==
    Built =>
        \A p \in 1..Len(edges) :
            LET c == edges[p]
            IN /\ \A u \in WaypointIds, v \in WaypointIds :
                      (/\ Writes(c, u, v)
                       /\ \A q \in (p + 1)..Len(edges) : ~Writes(edges[q], u, v))
                          => Entries(graph, u, v) = {EntryOf(c, v)}
               /\ ~IsCurvedConn(c) => edgeCost(c) = c.cost

\* A curved bidirectional connection whose two entries carry its scaled
\* cost, after an earlier connection on the same two nodes was overwritten.
C13_Witness ==
    /\ Built
    /\ \E p \in 1..Len(edges), q \in 1..Len(edges) :
           /\ p < q
           /\ Resolves(edges[q]) /\ IsBidirectional(edges[q]) /\ IsCurvedConn(edges[q])
           /\ edges[q].from # edges[q].to
           /\ edgeCost(edges[q]) # edges[q].cost
           /\ Writes(edges[p], edges[q].to, edges[q].from)
           /\ Entries(graph, edges[q].to, edges[q].from) = {EntryOf(edges[q], edges[q].from)}
           /\ Entries(graph, edges[q].from, edges[q].to) = {EntryOf(edges[q], edges[q].to)}

\* The list es without its p-th element.
Without(es, p) == SubSeq(es, 1, p - 1) \o SubSeq(es, p + 1, Len(es))

\* C14: a connection with an endpoint that is no supplied node adds no node
\* and no adjacency entry, and the graph is the one built from the list
\* without that connection.
C14_UnresolvedSkipped ==
    Built =>
        \A p \in 1..Len(edges) :
            ~Resolves(edges[p]) =>
                /\ DOMAIN graph = WaypointIds
                /\ \A u \in DOMAIN graph :
                       \A e \in Range(graph[u].neighbors) :
                           e.edgeId # edges[p].id /\ e.id \in WaypointIds
                /\ graph = buildGraph(waypoints, Without(edges, p))

\* A connection from a waypoint to an unknown id was skipped between two
\* connections that were added.
C14_Witness ==
    /\ Built
    /\ Len(edges) >= 2
    /\ edges[1].from \in WaypointIds /\ edges[1].to \notin WaypointIds
    /\ Resolves(edges[2])
    /\ graph[edges[1].from].neighbors # <<>>

(***************************************************************************)
(* Claims about the StateStore.                                            *)
(***************************************************************************)
\* C15: deleteWaypoint(w) removes w and every connection from or to w and
\* nothing else, and in every state reached by adding and deleting
\* waypoints and connections, undo and redo, both endpoints of every
\* connection of the current map are waypoints of that map.
C15_EdgesHaveEndpoints ==
    /\ \A p \in 1..Len(store.edges) :
           /\ store.edges[p].from \in IdsOf(store.waypoints)
           /\ store.edges[p].to \in IdsOf(store.waypoints)
    /\ \A w \in StoreNodeIds :
           LET after == deleteWaypoint(store, w)
           IN /\ after.waypoints = SelectSeq(store.waypoints, LAMBDA wp : wp.id # w)
              /\ after.edges = SelectSeq(store.edges,
                                         LAMBDA e : e.from # w /\ e.to # w)
              /\ \A p \in 1..Len(after.edges) :
                     /\ after.edges[p].from \in IdsOf(after.waypoints)
                     /\ after.edges[p].to \in IdsOf(after.waypoints)

\* An undo has brought back a waypoint together with its connection: the
\* snapshot after the current one has neither.
C15_Witness ==
    /\ store.edges # <<>>
    /\ store.historyIndex + 2 <= Len(store.history)
    /\ LET later == store.history[store.historyIndex + 2]
       IN /\ later.edges = <<>>
          /\ \E p \in 1..Len(store.edges) :
                 store.edges[p].from \notin IdsOf(later.waypoints)

(***************************************************************************)
(* Claims about the terrain layer.                                         *)
(***************************************************************************)
Painted == pc = "painted"

\* The cells of a layer.
Cells(terrain) == (0..(terrain.gridWidth - 1)) \X (0..(terrain.gridHeight - 1))

InBrush(cell) ==
    (cell[1] - args.centerX) * (cell[1] - args.centerX)
        + (cell[2] - args.centerY) * (cell[2] - args.centerY)
            <= args.radius * args.radius

\* C16: the returned layer holds the type (unset for null) in every cell of
\* the grid within the radius of the centre and the input's value in every
\* other cell; gridWidth, gridHeight and types are unchanged, and the grid
\* of the layer handed in is not modified.
C16_PaintCircle ==
    Painted =>
        /\ \A cell \in Cells(args.terrain) :
               getTerrainAt(ret.returned, cell[1], cell[2]) =
                   IF InBrush(cell) THEN args.typeId
                   ELSE getTerrainAt(args.terrain, cell[1], cell[2])
        /\ Len(ret.returned.grid) = Len(args.terrain.grid)
        /\ ret.returned.gridWidth = args.terrain.gridWidth
        /\ ret.returned.gridHeight = args.terrain.gridHeight
        /\ ret.returned.types = args.terrain.types
        /\ ret.argument = args.terrain

\* A brush of radius 1 at a corner of a grid two cells wide and high
\* painted three cells over another type and left the fourth.
C16_Witness ==
    /\ Painted
    /\ args.radius = 1
    /\ args.terrain.gridWidth = 2 /\ args.terrain.gridHeight = 2
    /\ Cardinality({cell \in Cells(args.terrain) : InBrush(cell)}) = 3
    /\ \A cell \in Cells(args.terrain) :
           /\ getTerrainAt(args.terrain, cell[1], cell[2]) # Unset
           /\ getTerrainAt(args.terrain, cell[1], cell[2]) # args.typeId
    /\ \E cell \in Cells(args.terrain) :
           getTerrainAt(layer, cell[1], cell[2]) # args.typeId

\* C17: painting the returned layer again with the same centre, radius and
\* type gives an identical grid.
C17_PaintIdempotent ==
    Painted =>
        paintTerrain(ret.returned, args.centerX, args.centerY, args.radius,
                     args.typeId).returned.grid = ret.returned.grid

\* A stroke that changed some cells and left others, so that the second
\* stroke finds a grid different from the one the first found.
C17_Witness ==
    /\ Painted
    /\ ret.returned.grid # args.terrain.grid
    /\ \E cell \in Cells(args.terrain) :
           /\ ~InBrush(cell)
           /\ getTerrainAt(layer, cell[1], cell[2]) \notin {Unset, args.typeId}

\* The cell of a layer that a pixel coordinate falls into: cell c spans the
\* pixels from c * size / cells up to (c + 1) * size / cells, and a
\* coordinate off the image belongs to the nearest border cell.
CellOf(x, size, cells) ==
    IF x < 0 THEN 0
    ELSE IF x >= size THEN cells - 1
    ELSE CHOOSE c \in 0..(cells - 1) : c * size <= x * cells /\ x * cells < (c + 1) * size

\* C18: getTerrainCostAt gives 1 (ten tenths) for every image point whose
\* cell is unset or holds a type id that is not in the type list, whatever
\* the other cells hold, and the cost multiplier of the cell's type
\* otherwise, also for points on or outside the image border.
C18_CostAt ==
    pc = "costed" =>
        LET cellX == CellOf(args.imageX, image.width, layer.gridWidth)
            cellY == CellOf(args.imageY, image.height, layer.gridHeight)
            held == layer.grid[cellY * layer.gridWidth + cellX + 1]
            known == {t \in Range(layer.types) : t.id = held}
        IN ret = IF held = Unset \/ known = {} THEN 10
                 ELSE (CHOOSE t \in known : TRUE).cost

\* A point beyond the right border whose border cell holds a default type,
\* next to a cell with an unknown type and an unset cell.
C18_Witness ==
    /\ pc = "costed"
    /\ args.imageX > image.width
    /\ ret = 25
    /\ \E p \in 1..Len(layer.grid) : layer.grid[p] = "lava"
    /\ \E p \in 1..Len(layer.grid) : layer.grid[p] = Unset

\* C19: a created layer has every cell unset, its longer side equal to the
\* grid size asked for, its other side at least 1 and width x height cells;
\* after any calls of paintTerrain and setTerrainAt the width and the height
\* are the created ones and the grid still has width x height cells.
C19_GridShape ==
    /\ pc = "created" =>
           /\ \A p \in 1..Len(layer.grid) : layer.grid[p] = Unset
           /\ Max(layer.gridWidth, layer.gridHeight) = image.gridSize
           /\ Min(layer.gridWidth, layer.gridHeight) >= 1
           /\ Len(layer.grid) = layer.gridWidth * layer.gridHeight
    /\ layer # NoLayer =>
           LET created == createTerrainLayer(image.width, image.height, image.gridSize)
           IN /\ layer.gridWidth = created.gridWidth
              /\ layer.gridHeight = created.gridHeight
              /\ Len(layer.grid) = layer.gridWidth * layer.gridHeight

\* setTerrainAt was called for the cell just right of the last cell of a
\* layer whose short side was rounded to nothing and raised to 1.
C19_Witness ==
    /\ pc = "set"
    /\ image.width > 2 * image.height * image.gridSize
    /\ layer.gridHeight = 1
    /\ args.cellX = layer.gridWidth /\ args.cellY = layer.gridHeight - 1
    /\ args.typeId # Unset
    /\ \E p \in 1..Len(layer.grid) : layer.grid[p] # Unset

(***************************************************************************)
(* Claims about the terrain cost of a connection.                          *)
(***************************************************************************)
EdgeCosted == pc \in {"costedNoTerrain", "costedTerrain"}

Abs(n) == IF n < 0 THEN -n ELSE n

\* The cost before rounding: the pixel distance over 100 without terrain,
\* the path terrain cost of the sampled connection with terrain.
UnroundedCost ==
    IF args.terrain = NoLayer
    THEN DistanceCost(args.fromWp, args.toWp)
    ELSE calculatePathTerrainCost(args.terrain,
             sampleLine(args.fromWp.x, args.fromWp.y, args.toWp.x, args.toWp.y,
                        NumSamples),
             NumSamples, image.width, image.height)

WAYPOINT_HIT_RADIUS == 12
NEARBY_WAYPOINT_RADIUS == 500

\* The square of distance(x1, y1, x2, y2); the program takes the root and
\* only compares the distances.
DistanceSquared(x1, y1, x2, y2) == (x2 - x1) * (x2 - x1) + (y2 - y1) * (y2 - y1)

pointInCircle(px, py, cx, cy, radius) ==
    (px - cx) * (px - cx) + (py - cy) * (py - cy) <= radius * radius

\* map.waypoints.find(wp => pointInCircle(...)): the id of the first
\* waypoint hit, 0 for undefined.
ClickedWaypoint(wps, canvasPos) ==
    LET hit == SelectSeq(wps, LAMBDA wp : pointInCircle(canvasPos[1], canvasPos[2],
                                              wp.x, wp.y, WAYPOINT_HIT_RADIUS))
    IN IF Len(hit) = 0 THEN 0 ELSE hit[1].id

\* Lines 403-412: the loop of findNearestWaypoint over map.waypoints from
\* index p on; nearest is a sequence of at most one waypoint.
RECURSIVE NearestFrom(_, _, _, _)
NearestFrom(wps, point, p, nearest) ==
    IF p > Len(wps) THEN nearest
    ELSE LET dist == DistanceSquared(point[1], point[2], wps[p].x, wps[p].y)
             closer ==
                 /\ \/ Len(nearest) = 0
                    \/ dist < DistanceSquared(point[1], point[2],
                                              nearest[1].x, nearest[1].y)
                 /\ dist < NEARBY_WAYPOINT_RADIUS * NEARBY_WAYPOINT_RADIUS
         IN NearestFrom(wps, point, p + 1, IF closer THEN <<wps[p]>> ELSE nearest)

\* The waypointId of findNearestWaypoint's result, 0 for null.
findNearestWaypoint(wps, point) ==
    LET nearest == NearestFrom(wps, point, 1, <<>>)
    IN IF Len(nearest) = 0 THEN 0 ELSE nearest[1].id

clearRoute(v) ==
    [v EXCEPT !.routeStart = 0, !.routeEnd = 0,
              !.arbitraryStart = <<>>, !.arbitraryEnd = <<>>]

\* Lines 128-158; clickedWaypoint is a waypoint id, 0 for undefined.
handleArbitraryPointClick(v, canvasPos, clickedWaypoint) ==
    LET hasStart == v.routeStart # 0 \/ v.arbitraryStart # <<>>
        hasEnd == v.routeEnd # 0 \/ v.arbitraryEnd # <<>>
    IN IF ~hasStart
       THEN IF clickedWaypoint # 0
            THEN [v EXCEPT !.arbitraryStart = <<>>, !.routeStart = clickedWaypoint]
            ELSE [v EXCEPT !.arbitraryStart = canvasPos, !.routeStart = 0]
       ELSE IF ~hasEnd
       THEN IF clickedWaypoint # 0
            THEN [v EXCEPT !.arbitraryEnd = <<>>, !.routeEnd = clickedWaypoint]
            ELSE [v EXCEPT !.arbitraryEnd = canvasPos, !.routeEnd = 0]
       ELSE clearRoute(v)

\* Lines 187-215.
handleWaypointClick(v, clickedWaypoint) ==
    LET hasStart == v.routeStart # 0 \/ v.arbitraryStart # <<>>
    IN IF ~hasStart
       THEN [v EXCEPT !.arbitraryStart = <<>>, !.arbitraryEnd = <<>>,
                      !.routeStart = clickedWaypoint]
       ELSE IF v.routeEnd = 0 /\ v.arbitraryEnd = <<>> /\ clickedWaypoint # v.routeStart
       THEN [v EXCEPT !.arbitraryEnd = <<>>, !.routeEnd = clickedWaypoint]
       ELSE IF clickedWaypoint = v.routeStart
       THEN [v EXCEPT !.routeStart = 0, !.routeEnd = 0,
                      !.arbitraryStart = <<>>, !.arbitraryEnd = <<>>]
       ELSE IF clickedWaypoint = v.routeEnd
       THEN [v EXCEPT !.routeEnd = 0]
       ELSE [v EXCEPT !.routeEnd = clickedWaypoint]

\* Lines 253-290 of findRoute: what becomes of the selection on the way to
\* the findKShortestPaths call.  outcome is "returned" for the early return
\* of line 260, "alerted" for the returns of lines 270 and 282, "called"
\* when the search is called with startId and endId.
findRoute(v, wps) ==
    LET hasStart == v.routeStart # 0 \/ v.arbitraryStart # <<>>
        hasEnd == v.routeEnd # 0 \/ v.arbitraryEnd # <<>>
        nearStart == findNearestWaypoint(wps, v.arbitraryStart)
        nearEnd == findNearestWaypoint(wps, v.arbitraryEnd)
        effectiveStartId == IF v.arbitraryStart # <<>> THEN nearStart ELSE v.routeStart
        effectiveEndId == IF v.arbitraryEnd # <<>> THEN nearEnd ELSE v.routeEnd
    IN IF ~hasStart \/ ~hasEnd
       THEN [outcome |-> "returned", startId |-> 0, endId |-> 0]
       ELSE IF v.arbitraryStart # <<>> /\ nearStart = 0
       THEN [outcome |-> "alerted", startId |-> 0, endId |-> 0]
       ELSE IF v.arbitraryEnd # <<>> /\ nearEnd = 0
       THEN [outcome |-> "alerted", startId |-> effectiveStartId, endId |-> 0]
       ELSE [outcome |-> "called", startId |-> effectiveStartId,
             endId |-> effectiveEndId]

\* The map of view mode: three waypoints in a row, and the places of the
\* canvas a click can land on: on each waypoint, between the waypoints and
\* far from all of them.
ViewWaypoints ==
    <<[id |-> 1, x |-> 0, y |-> 0], [id |-> 2, x |-> 300, y |-> 0],
      [id |-> 3, x |-> 600, y |-> 0]>>

ClickPlaces ==
    {<<0, 0>>, <<300, 5>>, <<600, 0>>, <<100, 0>>, <<500, 0>>, <<1200, 0>>}

InitViewer ==
    /\ search = NoSearch
    /\ viewer = NoViewer
    /\ storage = NoStorage
    /\ waypoints = <<>>
    /\ edges = <<>>
    /\ graph = EmptyMap
    /\ pc = "idle"
    /\ args = NoArgs
    /\ ret = Null
    /\ paths = <<>>
    /\ potentialPaths = <<>>
    /\ i = 0
    /\ j = 0
    /\ store = [FreshStore EXCEPT !.waypoints = ViewWaypoints]
    /\ layer = NoLayer
    /\ image = NoImage

viewerFrame ==
    <<waypoints, edges, graph, ret, paths, potentialPaths, i, j, search, storage,
      store, layer, image>>

\* handleMouseDown with the left button: lines 91-122.  A click on empty
\* space without Shift starts panning and leaves the selection alone.
HandleMouseDown ==
    /\ \E canvasPos \in ClickPlaces, shiftKey \in BOOLEAN :
           LET clickedWaypoint == ClickedWaypoint(store.waypoints, canvasPos)
           IN /\ shiftKey \/ clickedWaypoint # 0
              /\ viewer' = IF shiftKey
                           THEN handleArbitraryPointClick(viewer, canvasPos,
                                                          clickedWaypoint)
                           ELSE handleWaypointClick(viewer, clickedWaypoint)
    /\ pc' = "clicked"
    /\ args' = NoArgs
    /\ UNCHANGED viewerFrame

\* The Clear button.
ClearRoute ==
    /\ viewer' = clearRoute(viewer)
    /\ pc' = "cleared"
    /\ args' = NoArgs
    /\ UNCHANGED viewerFrame

\* The Find Route button; args are the arguments of the
\* findKShortestPaths call of line 291 when it is reached.
FindRoute ==
    /\ LET found == findRoute(viewer, store.waypoints)
       IN /\ pc' = found.outcome
          /\ args' = [NoArgs EXCEPT !.startId = found.startId,
                                    !.endId = found.endId,
                                    !.k = IF found.outcome = "called" THEN 2 ELSE 0]
    /\ UNCHANGED <<viewer, viewerFrame>>

NextViewer == HandleMouseDown \/ ClearRoute \/ FindRoute

SpecViewer == InitViewer /\ [][NextViewer]_vars

(***************************************************************************)
(* The persistence layer (Storage: init, load, migrateLegacyData, save).   *)
(* pc is the position of the load call: "idle" before it, "saving" while   *)
(* migrateLegacyData awaits save, "reading" while load awaits the get      *)
(* request, "returned" after it.                                           *)
(***************************************************************************)
\* What the older version left in localStorage: nothing, the maps "A" as
\* JSON, or text that JSON.parse rejects.
LegacyItems == {<<>>, <<"A">>, <<"corrupt">>}

\* What the IndexedDB store holds at page load: nothing or the maps "B".
StoredItems == {<<>>, <<"B">>}

InitStorage ==
    /\ search = NoSearch
    /\ viewer = NoViewer
    /\ \E legacy \in LegacyItems, stored \in StoredItems :
           storage = [NoStorage EXCEPT !.legacy = legacy, !.initially = legacy,
                                       !.stored = stored]
    /\ waypoints = <<>>
    /\ edges = <<>>
    /\ graph = EmptyMap
    /\ pc = "idle"
    /\ args = NoArgs
    /\ ret = Null
    /\ paths = <<>>
    /\ potentialPaths = <<>>
    /\ i = 0
    /\ j = 0
    /\ store = FreshStore
    /\ layer = NoLayer
    /\ image = NoImage

storageFrame ==
    <<waypoints, edges, graph, args, ret, paths, potentialPaths, i, j, search, viewer,
      store, layer, image>>

\* Lines 294-320 of load: without a database load returns false, with one
\* it asks for the value under DATA_KEY.
LoadFromIndexedDB(sto) ==
    IF ~sto.db THEN [next |-> "returned", storage |-> [sto EXCEPT !.returned = FALSE]]
    ELSE [next |-> "reading", storage |-> sto]

\* Lines 357-369 of save: without a database save returns false, with one
\* it puts state.maps in a readwrite transaction.
save(sto) ==
    IF ~sto.db THEN [sto EXCEPT !.saveStatus = "failed"]
    ELSE [sto EXCEPT !.pending = <<sto.maps>>, !.put = "requested"]

\* init, lines 255-257: the open request is made.
StorageInit ==
    /\ storage.open = "none"
    /\ storage' = [storage EXCEPT !.open = "requested"]
    /\ UNCHANGED <<pc, storageFrame>>

\* request.onsuccess of init (lines 264-268).
OpenSuccess ==
    /\ storage.open = "requested"
    /\ storage' = [storage EXCEPT !.open = "resolved", !.db = TRUE]
    /\ UNCHANGED <<pc, storageFrame>>

\* request.onerror of init (lines 259-262).
OpenError ==
    /\ storage.open = "requested"
    /\ storage' = [storage EXCEPT !.open = "resolved"]
    /\ UNCHANGED <<pc, storageFrame>>

\* load is called (lines 286-288) and runs migrateLegacyData (lines
\* 327-339) up to the point where it has to wait: for the put request of
\* save, or, when nothing is migrated, for the get request of load.
Load ==
    /\ pc = "idle"
    /\ IF storage.legacy = <<>> \/ storage.legacy = <<"corrupt">>
       THEN LET rest == LoadFromIndexedDB(storage)
            IN /\ storage' = rest.storage
               /\ pc' = rest.next
       ELSE LET loaded == [storage EXCEPT !.maps = storage.legacy[1]]
                saving == save(loaded)
            IN IF saving.put # "requested"
               THEN LET rest == LoadFromIndexedDB(saving)
                    IN /\ storage' = rest.storage
                       /\ pc' = rest.next
               ELSE /\ storage' = saving
                    /\ pc' = "saving"
    /\ UNCHANGED storageFrame

\* request.onsuccess of save (lines 371-376) resolves true.  When it is
\* the save of migrateLegacyData, that goes on (lines 341-346): it removes
\* the legacy item and returns true, and load returns true (lines 289-291).
PutSuccess ==
    /\ storage.put = "requested"
    /\ IF pc = "saving"
       THEN /\ storage' = [storage EXCEPT !.put = "succeeded", !.saveStatus = "saved",
                                         !.legacy = <<>>, !.migrated = TRUE,
                                         !.returned = TRUE]
            /\ pc' = "returned"
       ELSE /\ storage' = [storage EXCEPT !.put = "succeeded", !.saveStatus = "saved"]
            /\ UNCHANGED pc
    /\ UNCHANGED storageFrame

\* request.onerror, transaction.onerror or the catch of save (lines
\* 378-396) resolves false: nothing was written.  When it is the save of
\* migrateLegacyData, that returns false and load goes on to the database.
PutError ==
    /\ storage.put = "requested"
    /\ LET failed == [storage EXCEPT !.put = "failed", !.pending = <<>>,
                                     !.saveStatus = "failed",
                                     !.saveErrorShown = TRUE]
       IN IF pc = "saving"
          THEN LET rest == LoadFromIndexedDB(failed)
               IN /\ storage' = rest.storage
                  /\ pc' = rest.next
          ELSE /\ storage' = failed
               /\ UNCHANGED pc
    /\ UNCHANGED storageFrame

\* The transaction of save (line 367) completes: what the put wrote is
\* committed.  The program has no handler for the event.
TransactionComplete ==
    /\ storage.put = "succeeded"
    /\ storage' = [storage EXCEPT !.put = "committed", !.stored = storage.pending,
                                  !.pending = <<>>]
    /\ UNCHANGED <<pc, storageFrame>>

\* The transaction of save (line 367) fails at commit, after its put
\* request succeeded: what the put wrote is dropped.  transaction.onerror
\* (lines 385-390) calls resolve(false) on a promise that is resolved
\* already; an abort event finds no handler.
TransactionAbort ==
    /\ storage.put = "succeeded"
    /\ storage' = [storage EXCEPT !.put = "aborted", !.pending = <<>>]
    /\ UNCHANGED <<pc, storageFrame>>

\* After load the application enables auto-save (app.js line 84); a change
\* of state.maps calls debouncedSave (lines 470-475 and 492-504), which
\* shows "Saving..." and starts the timer.
EditMaps ==
    /\ pc = "returned"
    /\ storage.maps # "C"
    /\ storage' = [storage EXCEPT !.maps = "C", !.saveStatus = "saving",
                                  !.timer = TRUE]
    /\ UNCHANGED <<pc, storageFrame>>

\* The timer of debouncedSave fires and calls save (lines 501-503).  The
\* transaction of an earlier save is over: readwrite transactions on one
\* object store run one after the other.
AutoSave ==
    /\ storage.timer
    /\ storage.put \notin {"requested", "succeeded"}
    /\ storage' = save([storage EXCEPT !.timer = FALSE])
    /\ UNCHANGED <<pc, storageFrame>>

\* request.onsuccess of load (lines 304-314).
GetSuccess ==
    /\ pc = "reading"
    /\ storage' = IF storage.stored # <<>>
                  THEN [storage EXCEPT !.maps = storage.stored[1], !.returned = TRUE]
                  ELSE [storage EXCEPT !.returned = FALSE]
    /\ pc' = "returned"
    /\ UNCHANGED storageFrame

\* request.onerror of load (lines 316-319).
GetError ==
    /\ pc = "reading"
    /\ storage' = [storage EXCEPT !.returned = FALSE]
    /\ pc' = "returned"
    /\ UNCHANGED storageFrame

NextStorage ==
    \/ StorageInit
    \/ OpenSuccess
    \/ OpenError
    \/ Load
    \/ PutSuccess
    \/ PutError
    \/ TransactionComplete
    \/ TransactionAbort
    \/ EditMaps
    \/ AutoSave
    \/ GetSuccess
    \/ GetError

SpecStorage == InitStorage /\ [][NextStorage]_vars

(***************************************************************************)
(* Claims about the undo history.                                          *)
(***************************************************************************)
\* C21: the undo history holds at most MAX_HISTORY_SIZE snapshots.
C21_HistoryBounded == Len(store.history) <= MAX_HISTORY_SIZE

\* C22: after a history-recording mutation has taken the map from S to S',
\* an undo right after it restores the waypoints, connections and terrain
\* of S, and a redo right after that undo restores those of S'.
C22_UndoRedoRoundTrip ==
    /\ pc = "undone" => Snapshot(store) = args.before
    /\ pc = "redone" => Snapshot(store) = args.after

\* A mutation in the middle of a history that changed the map was undone
\* and redone.
C22_Witness ==
    /\ pc = "redone"
    /\ args.before # args.after
    /\ Len(store.history) >= 3
    /\ store.edges # <<>>

\* The connections whose cost the recalculation changed.
Recalculated ==
    {p \in 1..Len(args.before.edges) :
        args.before.edges[p].cost # args.after.edges[p].cost}

\* C23: "Recalc All Costs" is a single undo step: after it has changed the
\* cost of several connections, one undo restores the cost of every one
\* of them to its value before the recalculation.
C23_BatchIsOneUndoStep ==
    (pc = "recalcUndone" /\ Cardinality(Recalculated) >= 2) =>
        \A p \in Recalculated : store.edges[p].cost = args.before.edges[p].cost

(***************************************************************************)
(* Claims about Bezier curves.                                             *)
(***************************************************************************)
\* The point of a curve given by its four control points.
CurveAt(points, t) == cubicBezierPoint(points[1], points[2], points[3], points[4], t)

Original == <<args.p0, args.p1, args.p2, args.p3>>

NoRepeat(s) == \A a, b \in 1..Len(s) : a # b => s[a] # s[b]

\* The call that is followed has returned.
StepsReturned == pc = "dijkstraReturned" /\ search # NoSearch

\* The number of adjacency entries of a node.
Degree(n) == IF n \in DOMAIN graph THEN Len(graph[n].neighbors) ELSE 0

RECURSIVE Unexpanded(_)
Unexpanded(n) ==
    IF n > NumNodes THEN 0
    ELSE (IF n \in Range(search.expanded) THEN 0 ELSE 2 * Degree(n) + 2)
         + Unexpanded(n + 1)

\* What is left to do of the dijkstra call in progress: the entries of the
\* frontier and the entries the nodes not yet expanded can add to it.
DijkstraVariant ==
    IF pc \notin {"dijkstra", "explore"} THEN 0
    ELSE 2 * Len(search.locals.queue) + Unexpanded(1)
         + (IF pc = "dijkstra" THEN 1 ELSE 0)

\* What is left to do of the findKShortestPaths call in progress: the
\* rounds up to k and the spur nodes of the round in progress.
FindKVariant ==
    CASE pc = "outer" ->
             (NumNodes + 2) * (IF args.k > i THEN args.k - i ELSE 0) + 1
      [] pc = "inner" -> (NumNodes + 2) * (args.k - i) - 1 - j
      [] OTHER -> 0

Running == pc \in {"dijkstra", "explore", "outer", "inner"}

\* C25: every dijkstra call terminates (each pass of its loop leaves
\* strictly less to do, and what is left is never negative), either FOUND,
\* at the moment the target is taken from the frontier and with nothing
\* expanded after it, or EXHAUSTED, with an empty frontier; no node is
\* expanded twice; and every findKShortestPaths call terminates, the round
\* of spur searches in progress being at most the (k-1)-th.
C25_SearchTerminates ==
    /\ [](/\ NoRepeat(search.expanded)
          /\ StepsReturned =>
                \/ /\ search.locals.status = "found"
                   /\ ~IsNull(ret)
                   /\ search.current.id = args.endId
                   /\ search.taken = Append(search.expanded, args.endId)
                \/ /\ search.locals.status = "exhausted"
                   /\ IsNull(ret)
                   /\ Len(search.locals.queue) = 0
          /\ pc = "inner" => i <= args.k - 1
          /\ DijkstraVariant >= 0
          /\ FindKVariant >= 0)
    /\ [][Running => /\ DijkstraVariant' < DijkstraVariant \/ pc \in {"outer", "inner"}
                     /\ FindKVariant' < FindKVariant \/ pc \in {"dijkstra", "explore"}
                     /\ pc' \in {"dijkstra", "explore", "dijkstraReturned",
                                 "outer", "inner", "findKReturned"}]_vars

\* A call found the target after expanding two nodes and left entries in
\* the frontier.
C25_Witness ==
    /\ StepsReturned
    /\ search.locals.status = "found"
    /\ Len(search.expanded) >= 2
    /\ Len(search.locals.queue) > 0

(***************************************************************************)
(* Claims about ties in cost.                                              *)
(***************************************************************************)
\* The place of x in a list without repetition that holds it.
PlaceIn(s, x) == CHOOSE p \in 1..Len(s) : s[p] = x

\* The entry of the frontier that goes first: of least cost and, among
\* those of least cost, pushed first.
GoesFirst(e, q) ==
    /\ e \in Range(q)
    /\ \A f \in Range(q) :
           \/ e.cost < f.cost
           \/ /\ e.cost = f.cost
              /\ PlaceIn(search.inserted, e) <= PlaceIn(search.inserted, f)

\* C26: in a dijkstra call the predecessor and the incoming connection
\* recorded for a node change only together with a strictly lower cost of
\* that node, and the frontier entry taken is of least cost and, among the
\* entries of that cost, the one pushed first.
C26_TiesKeepFirst ==
    [][/\ pc = "explore" =>
              \A n \in DOMAIN search.locals.previous :
                  \/ search.locals.costs[n] > search'.locals.costs[n]
                  \/ /\ search'.locals.previous[n] = search.locals.previous[n]
                     /\ search'.locals.previousEdge[n] = search.locals.previousEdge[n]
                     /\ search'.locals.costs[n] = search.locals.costs[n]
       /\ pc = "dijkstra" /\ Len(search.locals.queue) > 0 =>
              GoesFirst(search'.current, search.locals.queue)]_vars

\* A node was reached a second time at the cost recorded for it, from a
\* node expanded later than its predecessor and while it was not visited,
\* and two entries of the frontier have the same cost.
C26_Witness ==
    /\ pc = "dijkstra"
    /\ \E n \in DOMAIN search.locals.previous, u \in Range(search.expanded) :
           /\ u # search.locals.previous[n]
           /\ PlaceIn(search.expanded, u)
                  > PlaceIn(search.expanded, search.locals.previous[n])
           /\ n \notin Range(search.taken)
           /\ n = args.endId \/ n \notin args.excludedNodes
           /\ \E p \in 1..Len(graph[u].neighbors) :
                  /\ graph[u].neighbors[p].id = n
                  /\ graph[u].neighbors[p].edgeId \notin args.excludedEdges
                  /\ search.locals.costs[u] + graph[u].neighbors[p].cost
                         = search.locals.costs[n]
    /\ \E a, b \in 1..Len(search.locals.queue) :
           /\ a # b
           /\ search.locals.queue[a].cost = search.locals.queue[b].cost
           /\ search.locals.queue[a].id # search.locals.queue[b].id

(***************************************************************************)
(* Claims about the shape of a Path Result.                                *)
(***************************************************************************)
\* The result leads from s to t over adjacency entries of the graph, and
\* its p-th connection id is the id of the entry of its p-th hop.
WellFormed(r, s, t) ==
    /\ Len(r.path) >= 1
    /\ r.path[1] = s
    /\ r.path[Len(r.path)] = t
    /\ Len(r.edges) = Len(r.path) - 1
    /\ \A p \in 1..(Len(r.path) - 1) :
           LET entry == Lookup(graph, r.path[p], r.path[p + 1])
           IN /\ Len(entry) = 1
              /\ p <= Len(r.edges)
              /\ r.edges[p] = entry[1].edgeId

\* C27: every Path Result returned by dijkstra or findKShortestPaths starts
\* at the source, ends at the target, goes over adjacency entries of the
\* graph only and lists exactly the connection id of the entry of each hop,
\* in order.
C27_PathWellFormed ==
    /\ pc = "dijkstraReturned" /\ ~IsNull(ret) =>
           WellFormed(ret, args.startId, args.endId)
    /\ pc = "findKReturned" =>
           \A p \in 1..Len(ret) : WellFormed(ret[p], args.startId, args.endId)

\* A call returned a second path of two hops or more that leaves the first
\* path after its first hop.
C27_Witness ==
    /\ pc = "findKReturned"
    /\ Len(ret) >= 2
    /\ Len(ret[2].path) >= 3
    /\ ret[2].path[2] = ret[1].path[2]

(***************************************************************************)
(* Claims about the route selection of view mode.                          *)
(***************************************************************************)
\* C28: whenever routeStart and routeEnd are both set they name two
\* different waypoints, and when findRoute calls the search while routeEnd
\* holds a waypoint id, that id is the destination of the search.
C28_RouteSelection ==
    /\ viewer.routeStart # 0 /\ viewer.routeEnd # 0 =>
           viewer.routeStart # viewer.routeEnd
    /\ pc = "called" /\ viewer.routeEnd # 0 => args.endId = viewer.routeEnd

(***************************************************************************)
(* Claims about the migration from localStorage.                           *)
(***************************************************************************)
\* C29: the legacy item is gone only when its data is in the IndexedDB
\* store (committed, or written in a transaction that is still active; as
\* long as the maps were not edited since); after a load that did not
\* migrate, the legacy item is what it was; and a load that reports a
\* migration has saved the item and removed it.
C29_MigrationKeepsData ==
    /\ storage.legacy = <<>> /\ storage.initially # <<>> /\ storage.maps # "C" =>
           storage.initially[1] \in Range(storage.stored) \cup Range(storage.pending)
    /\ pc = "returned" /\ ~storage.migrated => storage.legacy = storage.initially
    /\ pc = "returned" /\ storage.migrated =>
           /\ storage.returned
           /\ storage.initially # <<>>
           /\ storage.legacy = <<>>

(***************************************************************************)
(* Claims about getHistoryInfo.                                            *)
(***************************************************************************)
\* C30: in every state of the store canUndo tells whether the next undo
\* would return true, canRedo tells whether the next redo would return
\* true, and historyIndex lies between -1 and history.length - 1.
C30_HistoryInfoAgrees ==
    /\ getHistoryInfo(store).canUndo = undo(store).returned
    /\ getHistoryInfo(store).canRedo = redo(store).returned
    /\ store.historyIndex \in -1..(Len(store.history) - 1)

=========================================================================
